---- MODULE Spec2Model ----
(***************************************************************************)
(* Verification model of the monobit font codecs: Windows FNT reader and   *)
(* writer, raw bitmap reader and writer, the BMFont sprite-sheet packer,   *)
(* the OS/2 LX page unpackers and the NE/PE resource walkers.              *)
(***************************************************************************)
EXTENDS Integers, Sequences, FiniteSets, TLC

VARIABLES
    fnt_font,      \* create_fnt: the font handed to the writer (sequence of glyphs)
    fnt_version,   \* create_fnt: version argument
    fnt_file,      \* bytes returned by create_fnt (header fields + body), or an error
    fnt_out,       \* glyphs returned by parse_fnt, or an error
    fnt_pc,        \* position in the save/load pipeline
    raw_args,      \* raw codec: the arguments of the call
    raw_stream,    \* raw codec: the bytes of the input stream
    raw_out,       \* raw codec: what the call returned or raised
    raw_pc,        \* raw codec: which call is pending, or "done"
    sp_tree,       \* SpriteNode tree: its nodes, the root first
    sp_placed,     \* the rectangles insert returned, in call order
    sp_before,     \* the tree as it was before the last insert
    sp_last,       \* what the last insert returned or raised
    sp_img,        \* size of the image of the last insert
    ss_args,       \* _create_spritesheets: font (reduced glyph sizes), size, packed
    ss_sheet,      \* page_id, layer, channels and the tree of the sheet being filled
    ss_loop,       \* position in `for glyph in font.glyphs`, and the last x, y
    ss_chars,      \* the char records appended so far
    ss_pc,         \* position in the while loop, "done" or the exception raised
    lx_recs,       \* EXEPACK1: the records the page is made of
    lx_page,       \* the packed page handed to the unpacker
    lx_out,        \* what the unpacker returned or raised
    lx_pc,         \* which unpacker is pending, or "done"
    win_in,        \* FON splitter: the resource structure the file was laid out from
    win_fon,       \* the bytes of the .FON file
    win_work,      \* pefon: the lists dirtables and dataentries
    win_out,       \* the fonts returned, or the exception raised
    win_pc,        \* which splitter is pending, its position, or "done"
    fo_font,       \* the Font object at hand: glyphs, properties and label tables
    fo_last,       \* the Font method that built it
    bm_in,         \* BMFont input: the descriptor and the sprite sheet
    bm_out,        \* result of the BMFont reader
    bm_pc,         \* which BMFont reader is pending, or "done"
    mac_in,        \* Mac font resource handed to the NFNT reader
    mac_out,       \* result of the NFNT reader
    mac_pc,        \* "extract" before the NFNT reader ran, "done" after
    cpi_in,        \* CPI file: the codepages it was laid out from and its bytes
    cpi_out,       \* the fonts _parse_cpi returned, or the exception raised
    cpi_pc,        \* "parse" before the CPI parser ran, "done" after
    ami_in,        \* Amiga font: the header fields and tables of the strike
    ami_out,       \* the glyphs and properties _read_strike returned
    ami_pc,        \* "strike" before the strike reader ran, "done" after
    dd_in,         \* Daisy-Dot file: the glyph records and its bytes
    dd_out,        \* the glyphs the Daisy-Dot parser returned, or the exception
    dd_pc,         \* "parse" before the parser ran, "done" after
    cn_in,         \* container with a BMFont descriptor and its page images
    cn_open,       \* the streams of the container that are open
    cn_out,        \* result of _read_bmfont
    cn_pc,         \* position in _read_bmfont
    cv_args,       \* convert.py: command_args
    cv_fonts,      \* convert.py: fonts
    cv_saved,      \* what each save received, in order
    cv_pc          \* index of the command to execute, or "done"/"failed"

fntVars == <<fnt_font, fnt_version, fnt_file, fnt_out, fnt_pc>>
rawVars == <<raw_args, raw_stream, raw_out, raw_pc>>

sprVars == <<sp_tree, sp_placed, sp_before, sp_last, sp_img>>

shtVars == <<ss_args, ss_sheet, ss_loop, ss_chars, ss_pc>>

lxVars == <<lx_recs, lx_page, lx_out, lx_pc>>

winVars == <<win_in, win_fon, win_work, win_out, win_pc>>

fontVars == <<fo_font, fo_last>>
bmVars == <<bm_in, bm_out, bm_pc>>
macVars == <<mac_in, mac_out, mac_pc>>

cpiVars == <<cpi_in, cpi_out, cpi_pc>>
amiVars == <<ami_in, ami_out, ami_pc>>
ddVars == <<dd_in, dd_out, dd_pc>>
cnVars == <<cn_in, cn_open, cn_out, cn_pc>>
cvVars == <<cv_args, cv_fonts, cv_saved, cv_pc>>

vars == <<fntVars, rawVars, sprVars, shtVars, lxVars, winVars, fontVars, bmVars, macVars,
          cpiVars, amiVars, ddVars, cnVars, cvVars>>

NoValue == "none"

\* a call returns a value or raises; results are kept as [err, val]
Ok(v) == [err |-> "none", val |-> v]
Err(e) == [err |-> e, val |-> <<>>]
Unset == [err |-> "unset", val |-> <<>>]
IsOk(r) == r.err = "none"

\* the parts of the state a specification does not use stay as constructed
FntIdle ==
    /\ fnt_font = <<>>
    /\ fnt_version = 0
    /\ fnt_file = Unset
    /\ fnt_out = Unset
    /\ fnt_pc = "idle"

RawIdle ==
    /\ raw_args = <<>>
    /\ raw_stream = <<>>
    /\ raw_out = Unset
    /\ raw_pc = "idle"

SprIdle ==
    /\ sp_tree = <<>>
    /\ sp_placed = <<>>
    /\ sp_before = <<>>
    /\ sp_last = Unset
    /\ sp_img = <<>>

ShtIdle ==
    /\ ss_args = <<>>
    /\ ss_sheet = <<>>
    /\ ss_loop = <<>>
    /\ ss_chars = <<>>
    /\ ss_pc = "idle"

LxIdle ==
    /\ lx_recs = <<>>
    /\ lx_page = <<>>
    /\ lx_out = Unset
    /\ lx_pc = "idle"

WinIdle ==
    /\ win_in = <<>>
    /\ win_fon = <<>>
    /\ win_work = <<>>
    /\ win_out = Unset
    /\ win_pc = "idle"

FontIdle ==
    /\ fo_font = <<>>
    /\ fo_last = "idle"

BmIdle ==
    /\ bm_in = <<>>
    /\ bm_out = Unset
    /\ bm_pc = "idle"

MacIdle ==
    /\ mac_in = <<>>
    /\ mac_out = Unset
    /\ mac_pc = "idle"

CpiIdle ==
    /\ cpi_in = <<>>
    /\ cpi_out = Unset
    /\ cpi_pc = "idle"

AmiIdle ==
    /\ ami_in = <<>>
    /\ ami_out = Unset
    /\ ami_pc = "idle"

DdIdle ==
    /\ dd_in = <<>>
    /\ dd_out = Unset
    /\ dd_pc = "idle"

CnIdle ==
    /\ cn_in = <<>>
    /\ cn_open = {}
    /\ cn_out = Unset
    /\ cn_pc = "idle"

CvIdle ==
    /\ cv_args = <<>>
    /\ cv_fonts = <<>>
    /\ cv_saved = <<>>
    /\ cv_pc = "idle"

notFnt == <<rawVars, sprVars, shtVars, lxVars, winVars, fontVars, bmVars, macVars,
    cpiVars, amiVars, ddVars, cnVars, cvVars>>
notRaw == <<fntVars, sprVars, shtVars, lxVars, winVars, fontVars, bmVars, macVars,
    cpiVars, amiVars, ddVars, cnVars, cvVars>>
notSpr == <<fntVars, rawVars, shtVars, lxVars, winVars, fontVars, bmVars, macVars,
    cpiVars, amiVars, ddVars, cnVars, cvVars>>
notSht == <<fntVars, rawVars, sprVars, lxVars, winVars, fontVars, bmVars, macVars,
    cpiVars, amiVars, ddVars, cnVars, cvVars>>
notLx == <<fntVars, rawVars, sprVars, shtVars, winVars, fontVars, bmVars, macVars,
    cpiVars, amiVars, ddVars, cnVars, cvVars>>
notWin == <<fntVars, rawVars, sprVars, shtVars, lxVars, fontVars, bmVars, macVars,
    cpiVars, amiVars, ddVars, cnVars, cvVars>>
notFont == <<fntVars, rawVars, sprVars, shtVars, lxVars, winVars, bmVars, macVars,
    cpiVars, amiVars, ddVars, cnVars, cvVars>>
notBm == <<fntVars, rawVars, sprVars, shtVars, lxVars, winVars, fontVars, macVars,
    cpiVars, amiVars, ddVars, cnVars, cvVars>>
notMac == <<fntVars, rawVars, sprVars, shtVars, lxVars, winVars, fontVars, bmVars,
    cpiVars, amiVars, ddVars, cnVars, cvVars>>
notCpi == <<fntVars, rawVars, sprVars, shtVars, lxVars, winVars, fontVars, bmVars, macVars,
    amiVars, ddVars, cnVars, cvVars>>
notAmi == <<fntVars, rawVars, sprVars, shtVars, lxVars, winVars, fontVars, bmVars, macVars,
    cpiVars, ddVars, cnVars, cvVars>>
notDd == <<fntVars, rawVars, sprVars, shtVars, lxVars, winVars, fontVars, bmVars, macVars,
    cpiVars, amiVars, cnVars, cvVars>>
notCn == <<fntVars, rawVars, sprVars, shtVars, lxVars, winVars, fontVars, bmVars, macVars,
    cpiVars, amiVars, ddVars, cvVars>>
notCv == <<fntVars, rawVars, sprVars, shtVars, lxVars, winVars, fontVars, bmVars, macVars,
    cpiVars, amiVars, ddVars, cnVars>>

(***************************************************************************)
(* Bit and byte primitives                                                 *)
(***************************************************************************)

RECURSIVE Pow2(_)
Pow2(n) == IF n = 0 THEN 1 ELSE 2 * Pow2(n - 1)

ceildiv(num, den) == (num + den - 1) \div den

SetMin(S) == CHOOSE x \in S : \A y \in S : x <= y
SetMax(S) == CHOOSE x \in S : \A y \in S : x >= y

RECURSIVE Concat(_)
Concat(ss) == IF ss = <<>> THEN <<>> ELSE Head(ss) \o Concat(Tail(ss))

RECURSIVE SumSeq(_)
SumSeq(s) == IF s = <<>> THEN 0 ELSE Head(s) + SumSeq(Tail(s))

\* bit k (0 = most significant) of a byte
BitOf(b, k) == (b \div Pow2(7 - k)) % 2

\* bytes_to_bits: every byte gives 8 bits, most significant first
bytes_to_bits(bs) ==
    [i \in 1..(8 * Len(bs)) |-> BitOf(bs[((i - 1) \div 8) + 1], (i - 1) % 8)]

\* one raster row as bytes, left-aligned, padded with zero bits on the right
RowToBytes(row) ==
    [j \in 1..ceildiv(Len(row), 8) |->
        SumSeq([k \in 1..8 |->
            IF 8 * (j - 1) + k <= Len(row)
            THEN row[8 * (j - 1) + k] * Pow2(8 - k) ELSE 0])]

\* little-endian integer fields
WordLE(v) == <<v % 256, (v \div 256) % 256>>
DWordLE(v) == <<v % 256, (v \div 256) % 256, (v \div 65536) % 256, (v \div 16777216) % 256>>

(***************************************************************************)
(* Glyph: [codepoint, width, height, rows]; rows are listed top to bottom  *)
(***************************************************************************)

Glyph(rows, width, codepoint) ==
    [codepoint |-> codepoint, width |-> width, height |-> Len(rows), rows |-> rows]

\* Glyph.as_bytes: the rows in order, each padded to whole bytes
GlyphAsBytes(g) == Concat([r \in 1..g.height |-> RowToBytes(g.rows[r])])

\* Glyph.from_bytes(data, width): rows of ceildiv(width, 8) bytes each
GlyphFromBytes(data, width, codepoint) ==
    LET bw == ceildiv(width, 8)
        h == IF bw = 0 THEN 0 ELSE Len(data) \div bw
    IN  Glyph([r \in 1..h |->
                SubSeq(bytes_to_bits(SubSeq(data, (r - 1) * bw + 1, r * bw)), 1, width)],
              width, codepoint)

\* blank glyph of the given size, without a codepoint
GlyphBlank(width, height) ==
    Glyph([r \in 1..height |-> [c \in 1..width |-> 0]], width, NoValue)

HasInk(g) == \E r \in 1..g.height : \E c \in 1..g.width : g.rows[r][c] = 1

InkRows(g) == {r \in 1..g.height : \E c \in 1..g.width : g.rows[r][c] = 1}
InkCols(g) == {c \in 1..g.width : \E r \in 1..g.height : g.rows[r][c] = 1}

\* Glyph.ink_bounds (left, bottom, right, top), bottom-left origin, no bearings
GlyphInkBounds(g) ==
    IF ~HasInk(g) THEN [left |-> 0, bottom |-> 0, right |-> 0, top |-> 0]
    ELSE [left |-> SetMin(InkCols(g)) - 1, bottom |-> g.height - SetMax(InkRows(g)),
          right |-> SetMax(InkCols(g)), top |-> g.height - SetMin(InkRows(g)) + 1]

(***************************************************************************)
(* Font properties used by the writers (font.py)                           *)
(***************************************************************************)

Range(s) == {s[i] : i \in 1..Len(s)}

\* FontProperties.ink_bounds
FontInkBounds(font) ==
    LET nonempty == {g \in Range(font) : HasInk(g)}
    IN  IF nonempty = {} THEN [left |-> 0, bottom |-> 0, right |-> 0, top |-> 0]
        ELSE [left |-> SetMin({GlyphInkBounds(g).left : g \in nonempty}),
              bottom |-> SetMin({GlyphInkBounds(g).bottom : g \in nonempty}),
              right |-> SetMax({GlyphInkBounds(g).right : g \in nonempty}),
              top |-> SetMax({GlyphInkBounds(g).top : g \in nonempty})]

\* FontProperties.bounding_box
bounding_box(font) ==
    [x |-> FontInkBounds(font).right - FontInkBounds(font).left,
     y |-> FontInkBounds(font).top - FontInkBounds(font).bottom]

\* FontProperties.raster_size
raster_size(font) ==
    IF font = <<>> THEN [x |-> 0, y |-> 0]
    ELSE [x |-> SetMax({g.width : g \in Range(font)}),
          y |-> SetMax({g.height : g \in Range(font)})]

\* FontProperties.spacing, for glyphs without bearings or kerning
spacing(font) ==
    LET advances == {g.width : g \in {h \in Range(font) : h.width # 0}}
        \* line_height = pixel_size + leading, pixel_size = ascent + descent
        line_height == IF font = <<>> THEN 0
                       ELSE SetMax({GlyphInkBounds(g).top : g \in Range(font)})
                            - SetMin({GlyphInkBounds(g).bottom : g \in Range(font)})
        ink_contained_y == line_height >= bounding_box(font).y
        ink_contained_x == \A g \in Range(font) :
                               g.width >= GlyphInkBounds(g).right - GlyphInkBounds(g).left
    IN  IF font = <<>> THEN "character-cell"
        ELSE IF ink_contained_x /\ ink_contained_y /\ Cardinality(advances) = 1
             THEN "character-cell"
        ELSE IF ink_contained_x /\ ink_contained_y /\ Cardinality(advances) = 2
             THEN "multi-cell"
        ELSE IF Cardinality(advances) = 1 THEN "monospace"
        ELSE "proportional"

\* Font.get_empty_glyph
get_empty_glyph(font) == GlyphBlank(0, raster_size(font).y)

\* Font.get_codepoints
get_codepoints(font) == {g.codepoint : g \in Range(font)}

\* Font.get_glyph(codepoint, missing='empty')
get_glyph(font, codepoint) ==
    IF codepoint \in get_codepoints(font)
    THEN font[SetMax({i \in 1..Len(font) : font[i].codepoint = codepoint})]
    ELSE get_empty_glyph(font)

(***************************************************************************)
(* Windows FNT: layout constants (codecs/winfnt.py)                        *)
(***************************************************************************)

V1 == 256
V2 == 512
V3 == 768

KEEP_EMPTY_NulOnly == {0}

\* _KEEP_EMPTY
KEEP_EMPTY == {0, 32}

\* _FNT_HEADER_SIZE
FNT_HEADER_SIZE(version) ==
    IF version = V1 THEN 117 ELSE IF version = V2 THEN 118 ELSE 148

\* _GLYPH_ENTRY[version].size
GLYPH_ENTRY_SIZE(version) ==
    IF version = V1 THEN 2 ELSE IF version = V2 THEN 4 ELSE 6

\* bytes(glyph_entry(width, offset))
GlyphEntryBytes(version, width, offset) ==
    IF version = V2 THEN WordLE(width) \o WordLE(offset)
    ELSE WordLE(width) \o DWordLE(offset)

\* a file is the header fields the chartable reader uses plus the bytes after the header
FntLen(f) == FNT_HEADER_SIZE(f.dfVersion) + Len(f.body)

\* fnt[off] for an offset behind the header
FntByte(f, off) == f.body[off - FNT_HEADER_SIZE(f.dfVersion) + 1]

\* fnt[a:b]: a slice is cut at the end of the data
FntSlice(f, a, b) ==
    LET hs == FNT_HEADER_SIZE(f.dfVersion)
        hi == IF b < FntLen(f) THEN b ELSE FntLen(f)
    IN  IF a >= hi THEN <<>> ELSE SubSeq(f.body, a - hs + 1, hi - hs)

FntWord(f, off) == FntByte(f, off) + 256 * FntByte(f, off + 1)
FntDWord(f, off) ==
    FntByte(f, off) + 256 * FntByte(f, off + 1)
    + 65536 * FntByte(f, off + 2) + 16777216 * FntByte(f, off + 3)

\* s[a:b] on a sequence, 0-based, cut at the end
PySlice(s, a, b) ==
    LET hi == IF b < Len(s) THEN b ELSE Len(s)
    IN  IF a >= hi THEN <<>> ELSE SubSeq(s, a + 1, hi)

(***************************************************************************)
(* Windows FNT writer: create_fnt                                          *)
(***************************************************************************)

\* bytewise transpose of one glyph: _bm[_col::len(_bm)//height] for each column
TransposeColumns(g) ==
    LET bm == GlyphAsBytes(g)
        step == Len(bm) \div g.height
    IN  Concat([col \in 1..step |-> [r \in 1..g.height |-> bm[(r - 1) * step + col]]])

\* glyph_offsets = [0] + accumulate(len(bitmap))
RECURSIVE Accumulate(_, _)
Accumulate(lens, start) ==
    IF lens = <<>> THEN <<start>>
    ELSE <<start>> \o Accumulate(Tail(lens), start + Head(lens))

create_fnt(font, version) ==
    LET pix_width == IF spacing(font) = "proportional" THEN 0 ELSE bounding_box(font).x
        codepoints == get_codepoints(font)
        min_ord == SetMin(codepoints)
        max_ord == IF SetMax(codepoints) > 255 THEN 255 ELSE SetMax(codepoints)
        n == IF max_ord >= min_ord THEN max_ord - min_ord + 1 ELSE 0
        ord_glyphs == [i \in 1..n |-> get_glyph(font, min_ord + i - 1)]
                      \o <<GlyphBlank(pix_width, bounding_box(font).y)>>
        bitmaps == [i \in 1..Len(ord_glyphs) |-> TransposeColumns(ord_glyphs[i])]
        glyph_offsets == Accumulate([i \in 1..Len(bitmaps) |-> Len(bitmaps[i])], 0)
        offset_bitmaps == FNT_HEADER_SIZE(version) + Len(ord_glyphs) * GLYPH_ENTRY_SIZE(version)
        char_table == [i \in 1..Len(ord_glyphs) |->
                          GlyphEntryBytes(version, ord_glyphs[i].width,
                                          offset_bitmaps + glyph_offsets[i])]
        \* family and device names are empty: one terminating NUL each
        face_name == <<0>>
        device_name == <<0>>
    IN  IF \E i \in 1..Len(ord_glyphs) : ord_glyphs[i].height = 0
        THEN Err("ZeroDivisionError")
        ELSE Ok([dfVersion |-> version,
              dfPixWidth |-> pix_width,
              dfPixHeight |-> bounding_box(font).y,
              dfFirstChar |-> min_ord % 256,
              dfLastChar |-> max_ord,
              dfWidthBytes |-> 2 * ceildiv(ceildiv(bounding_box(font).x, 8), 2),
              dfBitsOffset |-> offset_bitmaps,
              body |-> Concat(char_table) \o Concat(bitmaps) \o face_name \o device_name])

(***************************************************************************)
(* Windows FNT reader: parse_fnt                                           *)
(***************************************************************************)

\* entry i (0-based) of the v2/v3 char table
EntryWidth(f, i) == FntWord(f, FNT_HEADER_SIZE(f.dfVersion) + i * GLYPH_ENTRY_SIZE(f.dfVersion))
EntryOffset(f, i) ==
    LET at == FNT_HEADER_SIZE(f.dfVersion) + i * GLYPH_ENTRY_SIZE(f.dfVersion) + 2
    IN  IF f.dfVersion = V2 THEN FntWord(f, at) ELSE FntDWord(f, at)

\* the offsets of the bytes of glyph i, row by row: geOffset + col*height + row
GlyphDataOffsets(f, i) ==
    LET height == f.dfPixHeight
        bytewidth == ceildiv(EntryWidth(f, i), 8)
    IN  [k \in 1..(height * bytewidth) |->
            EntryOffset(f, i) + ((k - 1) % bytewidth) * height + ((k - 1) \div bytewidth)]

RECURSIVE ParseV2From(_, _, _)
ParseV2From(f, i, glyphs) ==
    IF i > f.dfLastChar - f.dfFirstChar THEN Ok(glyphs)
    ELSE IF EntryWidth(f, i) = 0 THEN ParseV2From(f, i + 1, glyphs)
    ELSE LET offs == GlyphDataOffsets(f, i)
             ord == f.dfFirstChar + i
         IN  IF \E k \in 1..Len(offs) : offs[k] >= FntLen(f) THEN Err("IndexError")
             ELSE LET glyph_data == [k \in 1..Len(offs) |-> FntByte(f, offs[k])]
                  IN  IF (\E k \in 1..Len(glyph_data) : glyph_data[k] # 0)
                         \/ ord \in KEEP_EMPTY
                      THEN ParseV2From(f, i + 1,
                               Append(glyphs, GlyphFromBytes(glyph_data, EntryWidth(f, i), ord)))
                      ELSE ParseV2From(f, i + 1, glyphs)

_parse_chartable_v2(f) == ParseV2From(f, 0, <<>>)

\* char-table offsets of a v1 font: read from the table, or multiples of dfPixWidth
V1Offsets(f) ==
    LET n_chars == f.dfLastChar - f.dfFirstChar + 1
    IN  IF f.dfPixWidth = 0
        THEN [i \in 1..(n_chars + 1) |-> FntWord(f, FNT_HEADER_SIZE(V1) + 2 * (i - 1))]
        ELSE [i \in 1..(n_chars + 1) |-> f.dfPixWidth * (i - 1)]

V1StrikeRows(f) ==
    [r \in 1..f.dfPixHeight |->
        bytes_to_bits(FntSlice(f, f.dfBitsOffset + (r - 1) * f.dfWidthBytes,
                                  f.dfBitsOffset + r * f.dfWidthBytes))]

RECURSIVE ParseV1From(_, _, _)
ParseV1From(f, ord, glyphs) ==
    IF ord > f.dfLastChar - f.dfFirstChar THEN Ok(glyphs)
    ELSE LET offset == V1Offsets(f)[ord + 1]
             width == V1Offsets(f)[ord + 2] - offset
             rows == [r \in 1..f.dfPixHeight |->
                         PySlice(V1StrikeRows(f)[r], offset, offset + width)]
         IN  IF width = 0 THEN ParseV1From(f, ord + 1, glyphs)
             ELSE IF rows # <<>> \/ ord \in KEEP_EMPTY
             THEN ParseV1From(f, ord + 1,
                      Append(glyphs, Glyph(rows, IF rows = <<>> THEN 0 ELSE Len(rows[1]),
                                           f.dfFirstChar + ord)))
             ELSE ParseV1From(f, ord + 1, glyphs)

_parse_chartable_v1(f) == ParseV1From(f, 0, <<>>)

_parse_chartable(f) ==
    IF f.dfVersion = V1 THEN _parse_chartable_v1(f) ELSE _parse_chartable_v2(f)

\* parse_fnt: the glyph list of the returned font
parse_fnt(f) == _parse_chartable(f)

(***************************************************************************)
(* FNT round trip: create_fnt, then parse_fnt                              *)
(***************************************************************************)

MaxFntGlyphs == 2
MaxFntHeight == 2

FntCodepoints == {65, 66, 68}
FntWidths == {1, 9}
FntVersions == {V2, V3}

\* row patterns of a given width: blank, leftmost pixel, rightmost pixel
FntRowPats(w) ==
    {[c \in 1..w |-> 0], [c \in 1..w |-> IF c = 1 THEN 1 ELSE 0],
     [c \in 1..w |-> IF c = w THEN 1 ELSE 0]}

FntRasters(w) == UNION {[1..h -> FntRowPats(w)] : h \in 1..MaxFntHeight}

\* the glyphs of the input fonts: every one has ink and a height of at least 1
FntGlyphsOfWidth(w) == {Glyph(rows, w, cp) : rows \in FntRasters(w), cp \in FntCodepoints}

FntInkGlyphs == {g \in UNION {FntGlyphsOfWidth(w) : w \in FntWidths} : HasInk(g)}

\* fonts of at most MaxFntGlyphs glyphs, in codepoint order
FntFontsFrom(glyphs) ==
    UNION {{font \in [1..n -> glyphs] :
               \A i \in 1..(n - 1) : font[i].codepoint < font[i + 1].codepoint}
           : n \in 1..MaxFntGlyphs}

InitFnt ==
    /\ RawIdle /\ SprIdle /\ ShtIdle /\ LxIdle /\ WinIdle /\ FontIdle /\ BmIdle /\ MacIdle
    /\ CpiIdle /\ AmiIdle /\ DdIdle /\ CnIdle /\ CvIdle
    /\ fnt_font \in FntFontsFrom(FntInkGlyphs)
    /\ fnt_version \in FntVersions
    /\ fnt_file = Unset
    /\ fnt_out = Unset
    /\ fnt_pc = "font"

\* save(): outstream.write(create_fnt(font, version*0x100))
CreateFnt ==
    /\ fnt_pc = "font"
    /\ fnt_file' = create_fnt(fnt_font, fnt_version)
    /\ fnt_pc' = IF IsOk(fnt_file') THEN "file" ELSE "failed"
    /\ UNCHANGED <<fnt_font, fnt_version, fnt_out>>
    /\ UNCHANGED notFnt

\* load(): parse_fnt(instream.read())
ParseFnt ==
    /\ fnt_pc = "file"
    /\ fnt_out' = parse_fnt(fnt_file.val)
    /\ fnt_pc' = "parsed"
    /\ UNCHANGED <<fnt_font, fnt_version, fnt_file>>
    /\ UNCHANGED notFnt

NextFnt == CreateFnt \/ ParseFnt

SpecFnt == InitFnt /\ [][NextFnt]_vars

\* C1: for every font whose glyphs have a codepoint in 0..255, a height of at least 1
\* and ink, parse_fnt(create_fnt(font, version)) returns the glyphs of the font: the same
\* codepoints, widths and pixel rows.
C1_RoundTrip ==
    fnt_pc = "parsed" => (IsOk(fnt_out) /\ fnt_out.val = fnt_font)

(***************************************************************************)
(* FNT files handed to parse_fnt: all three versions                       *)
(***************************************************************************)

MaxFntChars == 2

FntFirstChars == {0, 31, 65}
FntCellWidths == {0, 1, 8}
FntCellHeights == {1, 2}
\* bitmap bytes: blank, leftmost bit, rightmost bit
FntCellBytes == {0, 128, 1}
FntAllVersions == {V1, V2, V3}

\* one char of a file: its width and one bitmap byte per row
FntCells(h) ==
    {[width |-> w, data |-> d] : w \in FntCellWidths \ {0}, d \in [1..h -> FntCellBytes]}
    \cup {[width |-> 0, data |-> [r \in 1..h |-> 0]]}

\* the pixels of a cell: the leading `width` bits of each row byte
CellRows(c) == [r \in 1..Len(c.data) |-> SubSeq(bytes_to_bits(<<c.data[r]>>), 1, c.width)]

\* v1 file: offset table (proportional only), then one strike of dfWidthBytes per row
FntFileV1(first, fixed, h, cells) ==
    LET n == Len(cells)
        offsets == Accumulate([i \in 1..n |-> cells[i].width], 0)
        table == IF fixed THEN <<>> ELSE Concat([i \in 1..(n + 1) |-> WordLE(offsets[i])])
        wbytes == 2 * ceildiv(ceildiv(offsets[n + 1], 8), 2)
        strikerow(r) == LET bs == RowToBytes(Concat([i \in 1..n |-> CellRows(cells[i])[r]]))
                        IN  bs \o [k \in 1..(wbytes - Len(bs)) |-> 0]
    IN  [dfVersion |-> V1,
         dfPixWidth |-> IF fixed THEN cells[1].width ELSE 0,
         dfPixHeight |-> h,
         dfFirstChar |-> first,
         dfLastChar |-> first + n - 1,
         dfWidthBytes |-> wbytes,
         dfBitsOffset |-> FNT_HEADER_SIZE(V1) + Len(table),
         body |-> table \o Concat([r \in 1..h |-> strikerow(r)])]

\* v2/v3 file: (width, offset) table, then the bitmap of each char (one byte column)
FntFileV2(version, first, fixed, h, cells) ==
    LET n == Len(cells)
        bitmaps == [i \in 1..n |-> IF cells[i].width = 0 THEN <<>> ELSE cells[i].data]
        offsets == Accumulate([i \in 1..n |-> Len(bitmaps[i])], 0)
        start == FNT_HEADER_SIZE(version) + n * GLYPH_ENTRY_SIZE(version)
    IN  [dfVersion |-> version,
         dfPixWidth |-> IF fixed THEN cells[1].width ELSE 0,
         dfPixHeight |-> h,
         dfFirstChar |-> first,
         dfLastChar |-> first + n - 1,
         dfWidthBytes |-> 2,
         dfBitsOffset |-> start,
         body |-> Concat([i \in 1..n |->
                             GlyphEntryBytes(version, cells[i].width, start + offsets[i])])
                  \o Concat(bitmaps)]

FntFile(version, first, fixed, h, cells) ==
    IF version = V1 THEN FntFileV1(first, fixed, h, cells)
    ELSE FntFileV2(version, first, fixed, h, cells)

\* the chars of the file being read, kept beside it
FntInputCells ==
    UNION {[1..n -> FntCells(h)] : n \in 1..MaxFntChars, h \in FntCellHeights}

\* a fixed-pitch header (dfPixWidth > 0) needs equal, non-zero widths
CanBeFixed(cells) ==
    /\ cells[1].width # 0
    /\ \A i \in 1..Len(cells) : cells[i].width = cells[1].width

InitFntParse ==
    /\ RawIdle /\ SprIdle /\ ShtIdle /\ LxIdle /\ WinIdle /\ FontIdle /\ BmIdle /\ MacIdle
    /\ CpiIdle /\ AmiIdle /\ DdIdle /\ CnIdle /\ CvIdle
    /\ fnt_font \in FntInputCells
    /\ fnt_version \in FntAllVersions
    /\ \E first \in FntFirstChars, fixed \in BOOLEAN :
          /\ fixed => CanBeFixed(fnt_font)
          /\ fnt_file = Ok(FntFile(fnt_version, first, fixed,
                                   Len(fnt_font[1].data), fnt_font))
    /\ fnt_out = Unset
    /\ fnt_pc = "file"

SpecFntParse == InitFntParse /\ [][ParseFnt]_vars

\* char i (0-based) of the file that was read, its codepoint, and whether it came out
FntCell(i) == fnt_font[i + 1]
FntCodepoint(i) == fnt_file.val.dfFirstChar + i
FntKept(i) == \E k \in 1..Len(fnt_out.val) : fnt_out.val[k].codepoint = FntCodepoint(i)
FntNoPixel(c) == \A r \in 1..Len(c.data) : \A k \in 1..c.width : CellRows(c)[r][k] = 0
FntZeroBytes(c) == \A r \in 1..Len(c.data) : c.data[r] = 0
FntIndices == 0..(Len(fnt_font) - 1)

\* the glyphs come out in table order, each with the pixels of its char
FntKeptInOrder ==
    /\ \A k \in 1..Len(fnt_out.val) :
          \E i \in FntIndices :
              /\ fnt_out.val[k].codepoint = FntCodepoint(i)
              /\ fnt_out.val[k].width = FntCell(i).width
              /\ fnt_out.val[k].rows = CellRows(FntCell(i))
    /\ \A k \in 1..(Len(fnt_out.val) - 1) :
          fnt_out.val[k].codepoint < fnt_out.val[k + 1].codepoint

RasterFromBytes(data, width, height, align) ==
    LET stride == IF align = "bit" THEN width ELSE 8 * ceildiv(width, 8)
        skip == IF align = "right" THEN stride - width ELSE 0
        bits == bytes_to_bits(data)
    IN  [r \in 1..height |->
            [c \in 1..width |->
                LET at == (r - 1) * stride + skip + c
                IN  IF at <= Len(bits) THEN bits[at] ELSE 0]]

\* Raster.crop(left, right)
RasterCrop(rows, left, right) ==
    [r \in 1..Len(rows) |-> SubSeq(rows[r], left + 1, Len(rows[r]) - right)]

\* instream.read(n)
StreamRead(stream, n) == PySlice(stream, 0, n)

\* data.ljust(n, b'\0')
LJust(data, n) == data \o [k \in 1..(n - Len(data)) |-> 0]


\* _extract_data_and_geometry, called with strike_bytes = -1 and count > 0, strike_count > 0
_extract_data_and_geometry(stream, width, height, count, padding, strike_count) ==
    LET strike_bytes == ceildiv(strike_count * width, 8)
        row_bytes == strike_bytes * height + padding
        nrows == ceildiv(count, strike_count)
        data == LJust(StreamRead(stream, nrows * row_bytes), nrows * row_bytes)
    IN  IF nrows = 0 \/ row_bytes = 0
        THEN Err("Font")       \* `return Font()`: not the 5-tuple the caller unpacks
        ELSE Ok([data |-> data, count |-> count, cells_per_row |-> strike_count,
                 bytes_per_row |-> row_bytes, nrows |-> nrows])

_extract_cells(data, width, height, align, cells_per_row, bytes_per_row, nrows) ==
    LET glyphrow(i) == RasterFromBytes(PySlice(data, i * bytes_per_row, (i + 1) * bytes_per_row),
                                       width * cells_per_row, height, align)
    IN  [k \in 1..(nrows * cells_per_row) |->
            LET i == (k - 1) \div cells_per_row
                j == (k - 1) % cells_per_row
            IN  RasterCrop(glyphrow(i), j * width, width * cells_per_row - (j + 1) * width)]

\* load_bitmap: the glyphs of the returned font
load_bitmap(stream, width, height, count, padding, align, strike_count, first_codepoint) ==
    LET g == _extract_data_and_geometry(stream, width, height, count, padding, strike_count)
    IN  IF ~IsOk(g) THEN Err("TypeError")
        ELSE LET cells == _extract_cells(g.val.data, width, height, align,
                                         g.val.cells_per_row, g.val.bytes_per_row, g.val.nrows)
                 kept == PySlice(cells, 0, g.val.count)
             IN  Ok([k \in 1..Len(kept) |-> Glyph(kept[k], width, first_codepoint + k - 1)])

PCR_COUNT == 256
PCR_WIDTH == 8

\* load_pcr: the header is read, the rest of the stream goes to load_binary
load_pcr(height, stream) ==
    load_bitmap(stream, PCR_WIDTH, height, PCR_COUNT, 0, "left", 1, 0)

\* save_bitmap: line 351 reads the name font_glyphs, which is bound nowhere
save_bitmap(font, strike_count, align, padding) ==
    IF spacing(font) # "character-cell" THEN Err("FileFormatError")
    ELSE Err("NameError")

MaxRawHeight == 2
MaxRawCount == 3
MaxRawStream == 3

RawWidths == {1, 3, 8, 9}
RawStrikeCounts == {1, 2}
RawPaddings == {0, 1}
RawAligns == {"left", "right", "bit"}
RawFirstCodepoints == {0, 65}
RawBytes == {0, 255}
RawStreams == UNION {[1..n -> RawBytes] : n \in 0..MaxRawStream}

InitRaw ==
    /\ FntIdle /\ SprIdle /\ ShtIdle /\ LxIdle /\ WinIdle /\ FontIdle /\ BmIdle /\ MacIdle
    /\ CpiIdle /\ AmiIdle /\ DdIdle /\ CnIdle /\ CvIdle
    /\ raw_pc \in {"bitmap", "pcr"}
    /\ raw_stream \in RawStreams
    /\ raw_args \in
          IF raw_pc = "bitmap"
          THEN [width : RawWidths, height : 1..MaxRawHeight, count : 1..MaxRawCount,
                padding : RawPaddings, align : RawAligns, strike_count : RawStrikeCounts,
                first_codepoint : RawFirstCodepoints]
          ELSE [height : 0..MaxRawHeight]
    /\ raw_out = Unset

LoadBitmap ==
    /\ raw_pc = "bitmap"
    /\ raw_out' = load_bitmap(raw_stream, raw_args.width, raw_args.height, raw_args.count,
                              raw_args.padding, raw_args.align, raw_args.strike_count,
                              raw_args.first_codepoint)
    /\ raw_pc' = "done_bitmap"
    /\ UNCHANGED <<raw_args, raw_stream>>
    /\ UNCHANGED notRaw

LoadPcr ==
    /\ raw_pc = "pcr"
    /\ raw_out' = load_pcr(raw_args.height, raw_stream)
    /\ raw_pc' = "done_pcr"
    /\ UNCHANGED <<raw_args, raw_stream>>
    /\ UNCHANGED notRaw

NextRaw == LoadBitmap \/ LoadPcr

SpecRaw == InitRaw /\ [][NextRaw]_vars

\* the returned glyphs are n glyphs of w x h at the codepoints first .. first+n-1
RawGlyphsAre(n, w, h, first) ==
    /\ IsOk(raw_out)
    /\ Len(raw_out.val) = n
    /\ \A k \in 1..n :
          /\ raw_out.val[k].width = w
          /\ raw_out.val[k].height = h
          /\ \A r \in 1..h : Len(raw_out.val[k].rows[r]) = w
          /\ raw_out.val[k].codepoint = first + k - 1

\* a stream shorter than the bitmap is read as if continued with zero bytes
RawShortReadsZero ==
    \A st \in RawStreams :
        (Len(st) >= Len(raw_stream) /\ SubSeq(st, 1, Len(raw_stream)) = raw_stream
         /\ \A k \in (Len(raw_stream) + 1)..Len(st) : st[k] = 0)
        => raw_out = load_bitmap(st, raw_args.width, raw_args.height, raw_args.count,
                                 raw_args.padding, raw_args.align, raw_args.strike_count,
                                 raw_args.first_codepoint)

RawBitmapResult ==
    raw_pc = "done_bitmap" =>
        /\ RawGlyphsAre(raw_args.count, raw_args.width, raw_args.height,
                        raw_args.first_codepoint)
        /\ RawShortReadsZero

\* C3 as stated: load_bitmap with W >= 1, H >= 1, strike_count >= 1, count >= 1 returns
\* count glyphs of W x H at consecutive codepoints for every stream length, missing
\* bytes read as zero, and load_pcr always yields 256 glyphs of 8 x header.height at
\* the codepoints 0..255.
C3_LoadBitmapAlways ==
    /\ RawBitmapResult
    /\ raw_pc = "done_pcr" => RawGlyphsAre(256, 8, raw_args.height, 0)

\* a PCR header whose height byte is 0: row_bytes is 0 and load_bitmap cannot unpack
C3_PcrZeroHeight ==
    /\ raw_pc = "done_pcr"
    /\ raw_args.height = 0
    /\ ~IsOk(raw_out)

(***************************************************************************)
(* Raw bitmap writer                                                       *)
(***************************************************************************)

RawSaveFonts == FntFontsFrom(FntInkGlyphs)

InitRawSave ==
    /\ FntIdle /\ SprIdle /\ ShtIdle /\ LxIdle /\ WinIdle /\ FontIdle /\ BmIdle /\ MacIdle
    /\ CpiIdle /\ AmiIdle /\ DdIdle /\ CnIdle /\ CvIdle
    /\ raw_pc = "save"
    /\ raw_stream = <<>>
    /\ raw_args \in {a \in [font : RawSaveFonts, strike_count : 1..MaxFntGlyphs,
                           align : RawAligns, padding : RawPaddings] :
                        a.strike_count \in {1, Len(a.font)}}
    /\ raw_out = Unset

SaveBitmap ==
    /\ raw_pc = "save"
    /\ raw_out' = save_bitmap(raw_args.font, raw_args.strike_count, raw_args.align,
                              raw_args.padding)
    /\ raw_stream' = IF IsOk(raw_out') THEN raw_out'.val ELSE <<>>
    /\ raw_pc' = "saved"
    /\ UNCHANGED raw_args
    /\ UNCHANGED notRaw

SpecRawSave == InitRawSave /\ [][SaveBitmap]_vars

\* load_bitmap of the saved bytes, with the geometry the font was saved with
RawLoadSaved ==
    load_bitmap(raw_stream, raw_args.font[1].width, raw_args.font[1].height,
                Len(raw_args.font), raw_args.padding, raw_args.align,
                raw_args.strike_count, raw_args.font[1].codepoint)

\* C2: for every character-cell font, every align in {left, right, bit} and
\* strike_count in {1, n}, save_bitmap followed by load_bitmap with the same cell size,
\* align, strike_count and padding returns the same glyph rasters in the same order.
C2_SaveLoadRoundTrip ==
    (raw_pc = "saved" /\ spacing(raw_args.font) = "character-cell") =>
        /\ IsOk(raw_out)
        /\ IsOk(RawLoadSaved)
        /\ Len(RawLoadSaved.val) = Len(raw_args.font)
        /\ \A k \in 1..Len(raw_args.font) : RawLoadSaved.val[k].rows = raw_args.font[k].rows

(***************************************************************************)
(* BMFont sprite sheets (bmfont.py)                                        *)
(***************************************************************************)

\* SpriteNode.__init__; the nodes of one tree are kept in a sequence, the root first,
\* and _children holds the positions of the two children
SpriteNode(left, top, right, bottom) ==
    [left |-> left, top |-> top, right |-> right, bottom |-> bottom,
     children |-> <<>>, image |-> FALSE]

\* the leaf test of insert: `not (self._image or img.width > width or img.height > height)`
LeafTakes_IgnoreImage(node, w, h) ==
    ~(w > node.right - node.left \/ h > node.bottom - node.top)

LeafTakes(node, w, h) ==
    ~(node.image \/ w > node.right - node.left \/ h > node.bottom - node.top)

\* the children a leaf gets when the image does not fit it exactly
SplitNode(node, w, h) ==
    LET dw == (node.right - node.left) - w
        dh == (node.bottom - node.top) - h
    IN  IF dw > dh
        THEN <<SpriteNode(node.left, node.top, node.left + w, node.bottom),
               SpriteNode(node.left + w, node.top, node.right, node.bottom)>>
        ELSE <<SpriteNode(node.left, node.top, node.right, node.top + h),
               SpriteNode(node.left, node.top + h, node.right, node.bottom)>>

\* SpriteNode.insert on node n: the tree as the call leaves it, and (x, y) or ValueError
RECURSIVE insert(_, _, _, _)
insert(tree, n, w, h) ==
    LET node == tree[n]
    IN  IF node.children # <<>>
        THEN LET r0 == insert(tree, node.children[1], w, h)
             IN  IF r0.ok THEN r0 ELSE insert(r0.tree, node.children[2], w, h)
        ELSE IF ~LeafTakes(node, w, h)
        THEN [ok |-> FALSE, tree |-> tree, x |-> 0, y |-> 0]
        ELSE IF w = node.right - node.left /\ h = node.bottom - node.top
        THEN [ok |-> TRUE, tree |-> [tree EXCEPT ![n].image = TRUE],
              x |-> node.left, y |-> node.top]
        ELSE insert([tree EXCEPT ![n].children = <<Len(tree) + 1, Len(tree) + 2>>]
                        \o SplitNode(node, w, h),
                    Len(tree) + 1, w, h)

MaxSpriteWidth == 3
MaxSpriteHeight == 2

InitSprite ==
    /\ FntIdle /\ RawIdle /\ ShtIdle /\ LxIdle /\ WinIdle /\ FontIdle /\ BmIdle /\ MacIdle
    /\ CpiIdle /\ AmiIdle /\ DdIdle /\ CnIdle /\ CvIdle
    /\ \E width \in 1..MaxSpriteWidth, height \in 1..MaxSpriteHeight :
          sp_tree = <<SpriteNode(0, 0, width, height)>>
    /\ sp_placed = <<>>
    /\ sp_before = <<>>
    /\ sp_last = Unset
    /\ sp_img = <<>>

\* one call tree.insert(img) with an image of at least one pixel each way
Insert ==
    \E w \in 1..MaxSpriteWidth, h \in 1..MaxSpriteHeight :
        LET r == insert(sp_tree, 1, w, h)
        IN  /\ sp_tree # <<>>
            /\ sp_before' = sp_tree
            /\ sp_tree' = r.tree
            /\ sp_img' = <<w, h>>
            /\ sp_last' = IF r.ok THEN Ok(<<r.x, r.y>>) ELSE Err("ValueError")
            /\ sp_placed' = IF r.ok
                            THEN Append(sp_placed, [x |-> r.x, y |-> r.y, w |-> w, h |-> h])
                            ELSE sp_placed
            /\ UNCHANGED notSpr

SpecSprite == InitSprite /\ [][Insert]_vars

RectsOverlap(a, b) ==
    /\ a.x < b.x + b.w /\ b.x < a.x + a.w
    /\ a.y < b.y + b.h /\ b.y < a.y + a.h

\* C5: after any sequence of insert calls on one tree the rectangles of the images
\* whose insert succeeded lie inside the root rectangle and do not overlap pairwise,
\* and an insert that fails with ValueError leaves the tree (and with it every earlier
\* placement) as it was.
C5_InsertPacks ==
    sp_tree # <<>> =>
        /\ \A i \in 1..Len(sp_placed) :
              /\ sp_tree[1].left <= sp_placed[i].x
              /\ sp_placed[i].x + sp_placed[i].w <= sp_tree[1].right
              /\ sp_tree[1].top <= sp_placed[i].y
              /\ sp_placed[i].y + sp_placed[i].h <= sp_tree[1].bottom
        /\ \A i, j \in 1..Len(sp_placed) :
              i # j => ~RectsOverlap(sp_placed[i], sp_placed[j])
        /\ sp_last.err = "ValueError" => sp_tree = sp_before

\* three images placed, the tree split, and then an image refused
C5_Witness ==
    /\ Len(sp_placed) >= 3
    /\ Len(sp_tree) >= 5
    /\ sp_last.err = "ValueError"
    /\ sp_img = <<1, 1>>

\* _create_spritesheets, one step per loop position

MaxSheetGlyphs == 2
MaxSheetSide == 2
MaxSheets == 3

\* the glyphs of the font: number of characters of glyph.char and the size of
\* glyph.reduce() (0 x 0 for a glyph without ink)
SheetGlyphs ==
    {[nchar |-> n, w |-> w, h |-> h] :
        n \in {1, 2}, w \in 0..MaxSheetSide, h \in 0..MaxSheetSide}

n_layers(packed) == IF packed THEN 4 ELSE 1

InitSheets ==
    /\ FntIdle /\ RawIdle /\ SprIdle /\ LxIdle /\ WinIdle /\ FontIdle /\ BmIdle /\ MacIdle
    /\ CpiIdle /\ AmiIdle /\ DdIdle /\ CnIdle /\ CvIdle
    /\ ss_args \in [font : UNION {[1..n -> {g \in SheetGlyphs : (g.w = 0) = (g.h = 0)}]
                                  : n \in 0..MaxSheetGlyphs},
                    width : 1..MaxSheetSide, height : 1..MaxSheetSide, packed : BOOLEAN]
    /\ ss_sheet = [page_id |-> 0, layer |-> 0, channels |-> 15, tree |-> <<>>, started |-> 0]
    /\ ss_loop = [i |-> 1, x |-> 0, y |-> 0]
    /\ ss_chars = <<>>
    /\ ss_pc = "while"

\* top of `while True`: a new image and a new tree for this layer
NewSheet ==
    /\ ss_pc = "while"
    /\ ss_sheet.started < MaxSheets
    /\ ss_sheet' = [ss_sheet EXCEPT
                       !.channels = IF ss_args.packed THEN Pow2(ss_sheet.layer) ELSE 15,
                       !.tree = <<SpriteNode(0, 0, ss_args.width, ss_args.height)>>,
                       !.started = @ + 1]
    /\ ss_loop' = [i |-> 1, x |-> 0, y |-> 0]
    /\ ss_pc' = "for"
    /\ UNCHANGED <<ss_args, ss_chars>>
    /\ UNCHANGED notSht

\* the char record of glyph i at (x, y)
CharRecord(i, x, y) ==
    [id |-> i, x |-> x, y |-> y, width |-> ss_args.font[i].w, height |-> ss_args.font[i].h,
     page |-> ss_sheet.page_id, chnl |-> ss_sheet.channels]

\* one iteration of `for glyph in font.glyphs`
ForGlyph ==
    /\ ss_pc = "for"
    /\ ss_loop.i <= Len(ss_args.font)
    /\ LET glyph == ss_args.font[ss_loop.i]
           r == insert(ss_sheet.tree, 1, glyph.w, glyph.h)
       IN  IF glyph.nchar > 1
           THEN \* the warning's argument reads the unbound name `label`
                /\ ss_pc' = "NameError"
                /\ UNCHANGED <<ss_sheet, ss_loop, ss_chars>>
           ELSE IF glyph.h # 0 /\ glyph.w # 0 /\ ~r.ok
           THEN \* we don't fit, get next sheet
                /\ ss_pc' = "break"
                /\ ss_sheet' = [ss_sheet EXCEPT !.tree = r.tree]
                /\ UNCHANGED <<ss_loop, ss_chars>>
           ELSE IF glyph.h # 0 /\ glyph.w # 0
           THEN /\ ss_sheet' = [ss_sheet EXCEPT !.tree = r.tree]
                /\ ss_loop' = [i |-> ss_loop.i + 1, x |-> r.x, y |-> r.y]
                /\ ss_chars' = Append(ss_chars, CharRecord(ss_loop.i, r.x, r.y))
                /\ ss_pc' = "for"
           ELSE /\ ss_loop' = [ss_loop EXCEPT !.i = @ + 1]
                /\ ss_chars' = Append(ss_chars, CharRecord(ss_loop.i, ss_loop.x, ss_loop.y))
                /\ UNCHANGED <<ss_sheet, ss_pc>>
    /\ UNCHANGED ss_args
    /\ UNCHANGED notSht

\* the `else` of the for loop: the iterator ran out, the while loop is left
ForElse ==
    /\ ss_pc = "for"
    /\ ss_loop.i > Len(ss_args.font)
    /\ ss_pc' = "done"
    /\ UNCHANGED <<ss_args, ss_sheet, ss_loop, ss_chars>>
    /\ UNCHANGED notSht

\* after `break`: move to the next layer or page
NextLayer ==
    /\ ss_pc = "break"
    /\ ss_sheet' = IF ss_sheet.layer = n_layers(ss_args.packed) - 1
                   THEN [ss_sheet EXCEPT !.page_id = @ + 1, !.layer = 0]
                   ELSE [ss_sheet EXCEPT !.layer = @ + 1]
    /\ ss_pc' = "while"
    /\ UNCHANGED <<ss_args, ss_loop, ss_chars>>
    /\ UNCHANGED notSht

NextSheets == NewSheet \/ ForGlyph \/ ForElse \/ NextLayer

SpecSheets == InitSheets /\ [][NextSheets]_vars

SheetRecordsOf(i) == {k \in 1..Len(ss_chars) : ss_chars[k].id = i}

\* C6: _create_spritesheets terminates for every font and page size; a full sheet is
\* followed by the next layer or page, which takes the glyphs not yet placed, so the
\* result holds exactly one char record per single-character glyph and every glyph
\* with ink is placed on exactly one (page, channel).  Stated as what never happens
\* on the way and what holds at the return.
C6_OneRecordPerGlyph ==
    /\ ss_pc # "idle" =>
          \A i \in 1..Len(ss_args.font) : Cardinality(SheetRecordsOf(i)) <= 1
    /\ ss_pc = "done" =>
          \A i \in 1..Len(ss_args.font) :
              ss_args.font[i].nchar = 1 => Cardinality(SheetRecordsOf(i)) = 1

\* the second sheet starts over at the first glyph of the font
C6_RestartsFont ==
    /\ ss_pc = "for"
    /\ ss_sheet.started = 2
    /\ ss_loop.i = 2
    /\ Cardinality(SheetRecordsOf(1)) = 2

(***************************************************************************)
(* OS/2 LX page unpackers (formats/os2/lx.py)                              *)
(***************************************************************************)

LX_PAGE_SIZE == 4096

\* _lx_unpack1: the first record with reps # 0 reaches `ofOut + usReps * usLen`, and
\* ofOut is bound nowhere
_lx_unpack1(pBuf) ==
    IF Len(pBuf) > LX_PAGE_SIZE THEN Ok(pBuf)
    ELSE IF Len(pBuf) < 2 THEN Err("IndexError")
    ELSE IF pBuf[1] + 256 * pBuf[2] = 0 THEN Ok(<<>>)
    ELSE IF Len(pBuf) < 4 THEN Err("IndexError")
    ELSE Err("NameError")

\* _copy_byte_seq(target, -back, count): target.append(target[-back]), count times
RECURSIVE _copy_byte_seq(_, _, _)
_copy_byte_seq(target, back, count) ==
    LET at == IF back = 0 THEN 1 ELSE Len(target) - back + 1
    IN  IF count = 0 THEN Ok(target)
        ELSE IF at < 1 \/ at > Len(target) THEN Err("IndexError")
        ELSE _copy_byte_seq(Append(target, target[at]), back, count - 1)

\* the literal bytes of a control: pBuf[start : start + ulLen]
LxLiteral_OneShort(pBuf, start, ulLen) == PySlice(pBuf, start, start + ulLen - 1)

LxLiteral(pBuf, start, ulLen) == PySlice(pBuf, start, start + ulLen)

\* _lx_unpack2 from the top of its while loop
RECURSIVE LxUnpack2From(_, _, _)
LxUnpack2From(pBuf, ofIn, abOut) ==
    LET cbPage == Len(pBuf)
        w16 == pBuf[ofIn + 1] + 256 * pBuf[ofIn + 2]
        \* the uint32 of case 3, of which no bit above 23 is used
        w32 == w16 + 65536 * pBuf[ofIn + 3]
        case_flag == w16 % 4
        \* `if ofIn >= cbPage: break`, else the next turn of the loop
        Loop(nextIn, out) ==
            IF ~IsOk(out) THEN out
            ELSE IF nextIn >= cbPage THEN out
            ELSE LxUnpack2From(pBuf, nextIn, out.val)
    IN  IF ofIn + 2 > cbPage THEN Err("ValueError")
        ELSE IF case_flag = 0 /\ w16 % 256 = 0
        THEN IF w16 \div 256 = 0 THEN Ok(abOut)
             ELSE IF ofIn + 3 > cbPage THEN Err("IndexError")
             ELSE Loop(ofIn + 3, Ok(abOut \o [k \in 1..(w16 \div 256) |-> pBuf[ofIn + 3]]))
        ELSE IF case_flag = 0
        THEN LET ulLen == (w16 % 256) \div 4
             IN  Loop(ofIn + ulLen + 1, Ok(abOut \o LxLiteral(pBuf, ofIn + 1, ulLen)))
        ELSE IF case_flag = 1
        THEN LET ulLen == (w16 \div 4) % 4
             IN  Loop(ofIn + ulLen + 2,
                      _copy_byte_seq(abOut \o LxLiteral(pBuf, ofIn + 2, ulLen),
                                     (w16 \div 128) % 512, ((w16 \div 16) % 8) + 3))
        ELSE IF case_flag = 2
        THEN Loop(ofIn + 2,
                  _copy_byte_seq(abOut, (w16 \div 16) % 4096, ((w16 \div 4) % 4) + 3))
        ELSE IF ofIn + 4 > cbPage THEN Err("ValueError")
        ELSE LET ulLen == (w32 \div 4) % 16
             IN  Loop(ofIn + ulLen + 3,
                      _copy_byte_seq(abOut \o LxLiteral(pBuf, ofIn + 3, ulLen),
                                     (w32 \div 4096) % 4096, (w32 \div 64) % 64))

_lx_unpack2(pBuf) ==
    IF Len(pBuf) > LX_PAGE_SIZE THEN Ok(pBuf) ELSE LxUnpack2From(pBuf, 0, <<>>)

MaxLxRecs == 2
MaxLxData == 2
MaxLxPage == 5

\* EXEPACK1 records: reps >= 1 and the data bytes
LxRecords ==
    [reps : 1..2, data : UNION {[1..n -> {65, 66}] : n \in 0..MaxLxData}]

\* reps and len as little-endian words, then the data
LxRecordBytes(rec) == WordLE(rec.reps) \o WordLE(Len(rec.data)) \o rec.data

\* control bytes of every case of EXEPACK2, and a plain data byte
LxBytes == {0, 4, 8, 18, 133, 67, 65}

InitLx ==
    /\ FntIdle /\ RawIdle /\ SprIdle /\ ShtIdle /\ WinIdle /\ FontIdle /\ BmIdle /\ MacIdle
    /\ CpiIdle /\ AmiIdle /\ DdIdle /\ CnIdle /\ CvIdle
    /\ lx_pc \in {"unpack1", "unpack2"}
    /\ lx_recs \in IF lx_pc = "unpack1"
                   THEN UNION {[1..n -> LxRecords] : n \in 0..MaxLxRecs}
                   ELSE {<<>>}
    /\ lx_page \in IF lx_pc = "unpack1"
                   THEN {Concat([k \in 1..Len(lx_recs) |-> LxRecordBytes(lx_recs[k])])
                            \o WordLE(0)}
                   ELSE UNION {[1..n -> LxBytes] : n \in 0..MaxLxPage}
    /\ lx_out = Unset

Unpack1 ==
    /\ lx_pc = "unpack1"
    /\ lx_out' = _lx_unpack1(lx_page)
    /\ lx_pc' = "done1"
    /\ UNCHANGED <<lx_recs, lx_page>>
    /\ UNCHANGED notLx

Unpack2 ==
    /\ lx_pc = "unpack2"
    /\ lx_out' = _lx_unpack2(lx_page)
    /\ lx_pc' = "done2"
    /\ UNCHANGED <<lx_recs, lx_page>>
    /\ UNCHANGED notLx

NextLx == Unpack1 \/ Unpack2

SpecLx == InitLx /\ [][NextLx]_vars

\* data repeated reps times
RECURSIVE LxRepeat(_, _)
LxRepeat(data, reps) == IF reps = 0 THEN <<>> ELSE data \o LxRepeat(data, reps - 1)

\* C7: for a page of records (reps, len, data) that ends with a reps field of 0 and
\* expands to at most 4096 bytes, _lx_unpack1 returns the records' data, each
\* repeated reps times, concatenated in record order.
C7_Unpack1Expands ==
    lx_pc = "done1" =>
        /\ IsOk(lx_out)
        /\ lx_out.val = Concat([k \in 1..Len(lx_recs) |->
                                   LxRepeat(lx_recs[k].data, lx_recs[k].reps)])

\* a page holding one record: the call ends at the unbound name
C7_Unpack1Raises ==
    /\ lx_pc = "done1"
    /\ Len(lx_recs) = 1
    /\ lx_out.err = "NameError"

\* the controls of a page as the format lays them out: where each one starts in the
\* page, where its output starts, and the lengths it encodes
RECURSIVE LxControls(_, _, _)
LxControls(pBuf, ofIn, ofOut) ==
    IF ofIn + 2 > Len(pBuf) THEN <<>>
    ELSE LET lo == pBuf[ofIn + 1]
             hi == pBuf[ofIn + 2]
             flag == lo % 4
             short == flag = 3 /\ ofIn + 4 > Len(pBuf)
             third == IF short THEN 0 ELSE pBuf[ofIn + 3]
             lit == IF flag = 0 THEN lo \div 4
                    ELSE IF flag = 1 THEN (lo \div 4) % 4
                    ELSE IF flag = 2 THEN 0
                    ELSE (lo \div 4) % 16
             run == IF flag = 0 THEN (IF lo = 0 THEN hi ELSE 0)
                    ELSE IF flag = 1 THEN ((lo \div 16) % 8) + 3
                    ELSE IF flag = 2 THEN ((lo \div 4) % 4) + 3
                    ELSE ((lo + 256 * hi) \div 64) % 64
             head == IF flag = 0 THEN (IF lo = 0 THEN 3 ELSE 1)
                     ELSE IF flag = 3 THEN 3 ELSE 2
             c == [ofIn |-> ofIn, ofOut |-> ofOut, flag |-> flag, lit |-> lit, run |-> run,
                   head |-> head, end |-> (lo = 0 /\ hi = 0)]
         IN  IF short THEN <<>>
             ELSE IF c.end \/ ofIn + head + lit >= Len(pBuf) THEN <<c>>
             ELSE <<c>> \o LxControls(pBuf, ofIn + head + lit, ofOut + lit + run)

LxDecodedLength(cs) == SumSeq([k \in 1..Len(cs) |-> cs[k].lit + cs[k].run])

\* every control's literal bytes lie inside the page
LxLiteralsInPage(pBuf, cs) ==
    \A k \in 1..Len(cs) : cs[k].end \/ cs[k].ofIn + cs[k].head + cs[k].lit <= Len(pBuf)

LxLiteralCopied(pBuf, out, c) ==
    (c.flag = 0 /\ c.lit > 0) =>
        /\ Len(out) >= c.ofOut + c.lit
        /\ SubSeq(out, c.ofOut + 1, c.ofOut + c.lit)
              = SubSeq(pBuf, c.ofIn + 2, c.ofIn + 1 + c.lit)

\* C8 as stated: a case-0 control with length1 = n > 0 appends exactly n literal input
\* bytes, control 0x0000 ends decoding, and the returned output is as long as the
\* decoded lengths add up to; the page 04 00 00 00 decodes to one byte.
C8_Unpack2Lengths ==
    (lx_pc = "done2" /\ IsOk(lx_out)) =>
        LET cs == LxControls(lx_page, 0, 0)
        IN  /\ Len(lx_out.val) = LxDecodedLength(cs)
            /\ \A k \in 1..Len(cs) : LxLiteralCopied(lx_page, lx_out.val, cs[k])
            /\ \A k \in 1..Len(cs) : cs[k].end => (k = Len(cs) /\ Len(lx_out.val) = cs[k].ofOut)

\* C8 amended: the same whenever the literal bytes of every control lie inside the
\* page; a literal run cut off by the end of the page appends only the bytes that are
\* there, and the output is then shorter than the decoded lengths.
C8_Unpack2LengthsInPage ==
    /\ (lx_pc = "done2" /\ IsOk(lx_out)
          /\ LxLiteralsInPage(lx_page, LxControls(lx_page, 0, 0))) => C8_Unpack2Lengths
    /\ (lx_pc = "done2" /\ lx_page = <<4, 0, 0, 0>>) => lx_out = Ok(<<0>>)

\* the page 08 41 65 00 00: two literal bytes, then the end control
C8_Witness ==
    /\ lx_pc = "done2"
    /\ lx_page = <<8, 65, 65, 0, 0>>
    /\ lx_out = Ok(<<65, 65>>)

(***************************************************************************)
(* NE and PE resource walkers (windows.py)                                 *)
(***************************************************************************)

\* fromword(s[at:]): struct.error when fewer than two bytes are left
fromword(s, at) ==
    IF at < 0 \/ at + 2 > Len(s) THEN Err("struct.error")
    ELSE Ok(s[at + 1] + 256 * s[at + 2])

\* dofnt, as far as the splitters depend on it: the decoded font is identified with
\* the bytes it was decoded from, and a string too short for the version word raises
dofnt(fnt) == IF Len(fnt) < 2 THEN Err("struct.error") ELSE Ok(fnt)

NE_FONT == 32776

\* `if rtype == 0x8008`
IsFontType_Any(rtype) == rtype # 0

IsFontType(rtype) == rtype = NE_FONT

\* nefon: `for i in range(count)` from record i on, p at the record
RECURSIVE NeRecords(_, _, _, _, _, _, _)
NeRecords(fon, p, i, count, rtype, shift, ret) ==
    IF i >= count THEN Ok([p |-> p, ret |-> ret])
    ELSE IF ~IsOk(fromword(fon, p)) \/ ~IsOk(fromword(fon, p + 2)) THEN Err("struct.error")
    ELSE LET start == fromword(fon, p).val * Pow2(shift)
             size == fromword(fon, p + 2).val * Pow2(shift)
             font == dofnt(PySlice(fon, start, start + size))
         IN  IF start < 0 \/ size < 0 \/ start + size > Len(fon) THEN Err("ValueError")
             ELSE IF IsFontType(rtype) /\ ~IsOk(font) THEN Err("ValueError")
             ELSE NeRecords(fon, p + 12, i + 1, count, rtype, shift,
                            IF IsFontType(rtype) THEN Append(ret, font.val) ELSE ret)

\* nefon: `while 1` from the type block at p on
RECURSIVE NeBlocks(_, _, _, _)
NeBlocks(fon, p, shift, ret) ==
    IF ~IsOk(fromword(fon, p)) THEN Err("struct.error")
    ELSE IF fromword(fon, p).val = 0 THEN Ok(ret)
    ELSE IF ~IsOk(fromword(fon, p + 2)) THEN Err("struct.error")
    ELSE LET r == NeRecords(fon, p + 8, 0, fromword(fon, p + 2).val,
                            fromword(fon, p).val, shift, ret)
         IN  IF ~IsOk(r) THEN r ELSE NeBlocks(fon, r.val.p, shift, r.val.ret)

nefon(fon, neoff) ==
    LET rtable == fromword(fon, neoff + 36)
    IN  IF ~IsOk(rtable) THEN rtable
        ELSE IF ~IsOk(fromword(fon, rtable.val + neoff)) THEN Err("struct.error")
        ELSE NeBlocks(fon, rtable.val + neoff + 2, fromword(fon, rtable.val + neoff).val, <<>>)

MaxNeBlocks == 2

NeTypes == {NE_FONT, 32770}
NeStarts == {2, 200}
NeSizes == {1, 3}
NeShifts == {0, 1}
NeOffsets == {0, 2}

NeBlockSet ==
    [rtype : NeTypes,
     recs : UNION {[1..n -> [start : NeStarts, size : NeSizes]] : n \in 0..2}]

\* head: bytes before the NE header and the header up to the resource table word
NeHead(neoff) == [k \in 1..(neoff + 36) |-> k - 1]

NeRecordBytes(rec) == WordLE(rec.start) \o WordLE(rec.size) \o [k \in 1..8 |-> 0]

NeBlockBytes(b) ==
    WordLE(b.rtype) \o WordLE(Len(b.recs)) \o [k \in 1..4 |-> 0]
        \o Concat([k \in 1..Len(b.recs) |-> NeRecordBytes(b.recs[k])])

\* the file: header, the word at 0x24 pointing right behind itself, the shift, the
\* type blocks and, unless the table is cut off, the closing type word 0
NeFile(in) ==
    NeHead(in.neoff) \o WordLE(38) \o WordLE(in.shift)
        \o Concat([k \in 1..Len(in.blocks) |-> NeBlockBytes(in.blocks[k])])
        \o (IF in.closed THEN WordLE(0) ELSE <<>>)

InitNe ==
    /\ FntIdle /\ RawIdle /\ SprIdle /\ ShtIdle /\ LxIdle /\ FontIdle /\ BmIdle /\ MacIdle
    /\ CpiIdle /\ AmiIdle /\ DdIdle /\ CnIdle /\ CvIdle
    /\ win_in \in [neoff : NeOffsets, shift : NeShifts, closed : BOOLEAN,
                   blocks : UNION {[1..n -> NeBlockSet] : n \in 0..MaxNeBlocks}]
    /\ win_fon = NeFile(win_in)
    /\ win_work = <<>>
    /\ win_out = Unset
    /\ win_pc = "nefon"

Nefon ==
    /\ win_pc = "nefon"
    /\ win_out' = nefon(win_fon, win_in.neoff)
    /\ win_pc' = "done"
    /\ UNCHANGED <<win_in, win_fon, win_work>>
    /\ UNCHANGED notWin

SpecNe == InitNe /\ [][Nefon]_vars

\* the byte range of a record: [start << shift, (start << shift) + (size << shift))
NeRange(rec) ==
    [from |-> rec.start * Pow2(win_in.shift),
     to |-> rec.start * Pow2(win_in.shift) + rec.size * Pow2(win_in.shift)]

\* the bytes of the records of the font blocks, in table order
NeFontBytes ==
    Concat([b \in 1..Len(win_in.blocks) |->
               IF win_in.blocks[b].rtype = 32776
               THEN [k \in 1..Len(win_in.blocks[b].recs) |->
                        SubSeq(win_fon, NeRange(win_in.blocks[b].recs[k]).from + 1,
                               NeRange(win_in.blocks[b].recs[k]).to)]
               ELSE <<>>])

\* the table is closed, no record overruns the file and every font record decodes
NeWellFormed ==
    /\ win_in.closed
    /\ \A b \in 1..Len(win_in.blocks) : \A k \in 1..Len(win_in.blocks[b].recs) :
          /\ NeRange(win_in.blocks[b].recs[k]).to <= Len(win_fon)
          /\ win_in.blocks[b].rtype = 32776
                => NeRange(win_in.blocks[b].recs[k]).to
                       - NeRange(win_in.blocks[b].recs[k]).from >= 2

\* C9: nefon takes the shift from the first word of the resource table at
\* ne_offset + (word at ne_offset + 0x24), reads type blocks (8 bytes, then count
\* records of 12 bytes) up to a type word of 0, and returns one font per record of
\* a block of type 0x8008, in table order, decoded from the bytes
\* [start << shift, (start << shift) + (size << shift)); records of other types give
\* no font.  It returns for every well-formed table.
C9_NefonFonts ==
    win_pc = "done" =>
        /\ IsOk(win_out) => win_out.val = NeFontBytes
        /\ NeWellFormed => IsOk(win_out)

\* a font block of two records behind a block of another type, shift 1
C9_Witness ==
    /\ win_pc = "done"
    /\ win_in.shift = 1
    /\ Len(win_in.blocks) = 2
    /\ win_in.blocks[1].rtype = 32770 /\ Len(win_in.blocks[1].recs) = 1
    /\ win_in.blocks[2].rtype = 32776 /\ Len(win_in.blocks[2].recs) = 2
    /\ IsOk(win_out) /\ Len(win_out.val) = 2
    /\ win_out.val[1] = <<4, 5>>

\* fromdword(s[at:]): bit 31 apart from the 31 bits below it
fromdword(s, at) ==
    IF at < 0 \/ at + 4 > Len(s) THEN Err("struct.error")
    ELSE Ok([top |-> s[at + 4] >= 128,
             low |-> s[at + 1] + 256 * s[at + 2] + 65536 * s[at + 3]
                        + 16777216 * (s[at + 4] % 128)])

\* s[a:b] where a or b may be negative (counted from the end)
PySliceWrap(s, a, b) ==
    LET from == IF a >= 0 THEN a ELSE IF Len(s) + a > 0 THEN Len(s) + a ELSE 0
        to == IF b >= 0 THEN b ELSE IF Len(s) + b > 0 THEN Len(s) + b ELSE 0
    IN  PySlice(s, from, to)

\* asciz: the bytes before the first 0; the for loop leaves `length` unbound on an
\* empty string and at len - 1 when there is no 0
asciz(s) ==
    LET zeros == {k \in 1..Len(s) : s[k] = 0}
        upto == IF zeros = {} THEN Len(s) - 1 ELSE SetMin(zeros) - 1
    IN  IF s = <<>> THEN Err("UnboundLocalError")
        ELSE IF \E k \in 1..upto : s[k] >= 128 THEN Err("UnicodeDecodeError")
        ELSE Ok(SubSeq(s, 1, upto))

RSRC_NAME == <<46, 114, 115, 114, 99>>

\* pefon.gotoffset
gotoffset(off, work) ==
    IF off.top THEN [work EXCEPT !.dirtables = Append(@, off.low)]
    ELSE [work EXCEPT !.dataentries = Append(@, off.low)]

\* `if rtype == -1 or rtype == thetype`
EntryTaken_Any(rtype, thetype) == TRUE

EntryTaken(rtype, thetype) == rtype = -1 \/ (~thetype.top /\ thetype.low = rtype)

\* pefon.dodirtable: `for i in range(number)` from entry i on
RECURSIVE DirEntries(_, _, _, _, _, _)
DirEntries(rsrc, off, rtype, i, number, work) ==
    LET entry == off + 16 + 8 * i
        thetype == fromdword(rsrc, entry)
        theoff == fromdword(rsrc, entry + 4)
    IN  IF i >= number THEN Ok(work)
        ELSE IF ~IsOk(thetype) \/ ~IsOk(theoff) THEN Err("struct.error")
        ELSE DirEntries(rsrc, off, rtype, i + 1, number,
                        IF EntryTaken(rtype, thetype.val) THEN gotoffset(theoff.val, work)
                        ELSE work)

dodirtable(rsrc, off, rtype, work) ==
    IF ~IsOk(fromword(rsrc, off + 12)) \/ ~IsOk(fromword(rsrc, off + 14))
    THEN Err("struct.error")
    ELSE DirEntries(rsrc, off, rtype, 0,
                    fromword(rsrc, off + 12).val + fromword(rsrc, off + 14).val, work)

\* pefon: the loop over the section table; sec is the entry read last
RECURSIVE FindRsrc(_, _, _, _, _)
FindRsrc(fon, sectable, i, secentries, sec) ==
    LET secentry == sectable + i * 40
        secname == asciz(PySlice(fon, secentry, secentry + 8))
        secrva == fromdword(fon, secentry + 12)
        secsize == fromdword(fon, secentry + 16)
        secptr == fromdword(fon, secentry + 20)
        this == [name |-> secname.val, rva |-> secrva.val.low, size |-> secsize.val.low,
                 ptr |-> secptr.val.low]
    IN  IF i >= secentries
        THEN IF i = 0 THEN Err("UnboundLocalError")
             ELSE IF sec.name # RSRC_NAME THEN Err("ValueError")
             ELSE Ok(sec)
        ELSE IF ~IsOk(secname) THEN secname
        ELSE IF ~IsOk(secrva) \/ ~IsOk(secsize) \/ ~IsOk(secptr) THEN Err("struct.error")
        ELSE IF this.name = RSRC_NAME THEN Ok(this)
        ELSE FindRsrc(fon, sectable, i + 1, secentries, this)

\* pefon up to and with `dodirtable(rsrc, 0, 0x08)`
PefonStart(fon, peoff) ==
    LET secentries == fromword(fon, peoff + 6)
        opthdr == fromword(fon, peoff + 20)
        sec == FindRsrc(fon, peoff + 24 + opthdr.val, 0, secentries.val, <<>>)
        rsrc == PySlice(fon, sec.val.ptr, sec.val.ptr + sec.val.size)
        work == dodirtable(rsrc, 0, 8, [dirtables |-> <<>>, dataentries |-> <<>>])
    IN  IF ~IsOk(secentries) \/ ~IsOk(opthdr) THEN Err("struct.error")
        ELSE IF ~IsOk(sec) THEN sec
        ELSE IF ~IsOk(work) THEN work
        ELSE Ok([rsrc |-> rsrc, secrva |-> sec.val.rva,
                 dirtables |-> work.val.dirtables, dataentries |-> work.val.dataentries])

\* pefon: `for off in dataentries` from entry i on
RECURSIVE PefonFonts(_, _, _, _, _)
PefonFonts(rsrc, secrva, dataentries, i, ret) ==
    LET off == dataentries[i]
        rva == fromdword(rsrc, off)
        size == fromdword(rsrc, off + 4)
        start == rva.val.low - secrva
        font == dofnt(PySliceWrap(rsrc, start, start + size.val.low))
    IN  IF i > Len(dataentries) THEN Ok(ret)
        ELSE IF ~IsOk(rva) \/ ~IsOk(size) THEN Err("struct.error")
        ELSE IF ~IsOk(font) THEN Err("ValueError")
        ELSE PefonFonts(rsrc, secrva, dataentries, i + 1, Append(ret, font.val))

MaxPeKids == 2

\* resource trees: a data entry names one of two payloads; below the root there are
\* directories of data entries and of directories holding one data entry
PeData == [kind : {"data"}, payload : {1, 2}]
PeLeafDirs == [kind : {"dir"}, kids : [1..1 -> PeData]]
PeDirs == [kind : {"dir"}, kids : UNION {[1..n -> PeData \cup PeLeafDirs] : n \in 1..MaxPeKids}]
PeRoots == UNION {[1..n -> [id : {8, 3}, sub : PeData \cup PeDirs]] : n \in 0..2}
PeSections ==
    {[names |-> <<RSRC_NAME>>, secrva |-> 4096],
     [names |-> <<<<46, 116, 101, 120, 116>>, RSRC_NAME>>, secrva |-> 0],
     [names |-> <<<<46, 116, 101, 120, 116>>>>, secrva |-> 0]}

\* where the parts of the section lie: the root table, one region per root entry,
\* one slot per entry of a region's table, and the payloads behind them
PeRegionAt(i) == 32 + (i - 1) * (16 + 40 * MaxPeKids)
PeSlotAt(i, j) == PeRegionAt(i) + 16 + 8 * MaxPeKids + (j - 1) * 32
PePayloadAt(p) == PeRegionAt(3) + (p - 1) * 4
PePayloadSize(p) == 4 - p
PeRsrcSize == PeRegionAt(3) + 8

\* a directory table: 12 bytes, no named entries, the number of id entries, and
\* per entry its id and its offset, bit 31 set when it leads to a table
PeDirBytes(ents) ==
    [k \in 1..12 |-> 0] \o WordLE(0) \o WordLE(Len(ents))
        \o Concat([k \in 1..Len(ents) |->
                      DWordLE(ents[k].id) \o WordLE(ents[k].to)
                          \o <<0, IF ents[k].isdir THEN 128 ELSE 0>>])

\* a data entry: RVA and size of the payload
PeDataBytes(d, secrva) == DWordLE(secrva + PePayloadAt(d.payload)) \o DWordLE(PePayloadSize(d.payload))

\* a slot: a data entry, or a table with its one data entry behind it
PeSlotBytes(kid, at, secrva) ==
    IF kid.kind = "data" THEN LJust(PeDataBytes(kid, secrva), 32)
    ELSE PeDirBytes(<<[id |-> 1033, to |-> at + 24, isdir |-> FALSE]>>)
             \o PeDataBytes(kid.kids[1], secrva)

\* the region of root entry i: a data entry, or a table and the slots of its entries
PeRegionBytes(sub, i, secrva) ==
    IF sub.kind = "data" THEN PeDataBytes(sub, secrva)
    ELSE LJust(PeDirBytes([j \in 1..Len(sub.kids) |->
                              [id |-> 2 + j, to |-> PeSlotAt(i, j),
                               isdir |-> sub.kids[j].kind = "dir"]]),
               16 + 8 * MaxPeKids)
             \o Concat([j \in 1..Len(sub.kids) |->
                           PeSlotBytes(sub.kids[j], PeSlotAt(i, j), secrva)])

PeRsrc(root, secrva) ==
    LJust(PeDirBytes([i \in 1..Len(root) |->
                         [id |-> root[i].id, to |-> PeRegionAt(i),
                          isdir |-> root[i].sub.kind = "dir"]]), 32)
        \o Concat([i \in 1..2 |->
                      LJust(IF i <= Len(root) THEN PeRegionBytes(root[i].sub, i, secrva)
                            ELSE <<>>,
                            16 + 40 * MaxPeKids)])
        \o <<1, 2, 3, 4, 5, 6, 7, 8>>

\* a section table entry: the name in 8 bytes, RVA at 12, size at 16, file offset at 20
PeSectionBytes(name, rva, size, ptr) ==
    name \o [k \in 1..(12 - Len(name)) |-> 0] \o DWordLE(rva) \o DWordLE(size)
        \o DWordLE(ptr) \o [k \in 1..16 |-> 0]

\* the file: PE header with the section count at 6 and no optional header, the
\* section table, and the resource section behind it
PeFile(in) ==
    LET n == Len(in.sec.names)
    IN  [k \in 1..6 |-> 0] \o WordLE(n) \o [k \in 1..16 |-> 0]
            \o Concat([k \in 1..n |->
                          PeSectionBytes(in.sec.names[k], in.sec.secrva, PeRsrcSize,
                                         24 + 40 * n)])
            \o PeRsrc(in.root, in.sec.secrva)

InitPe ==
    /\ FntIdle /\ RawIdle /\ SprIdle /\ ShtIdle /\ LxIdle /\ FontIdle /\ BmIdle /\ MacIdle
    /\ CpiIdle /\ AmiIdle /\ DdIdle /\ CnIdle /\ CvIdle
    /\ win_in \in [sec : PeSections, root : PeRoots]
    /\ win_fon = PeFile(win_in)
    /\ win_work = <<>>
    /\ win_out = Unset
    /\ win_pc = "pefon"

\* find the .rsrc section and read the root table
PeStart ==
    /\ win_pc = "pefon"
    /\ LET r == PefonStart(win_fon, 0)
       IN  IF IsOk(r)
           THEN win_work' = r.val /\ win_pc' = "tables" /\ UNCHANGED win_out
           ELSE win_out' = r /\ win_pc' = "done" /\ UNCHANGED win_work
    /\ UNCHANGED <<win_in, win_fon>>
    /\ UNCHANGED notWin

\* one turn of `while len(dirtables) > 0`
PeTable ==
    /\ win_pc = "tables"
    /\ Len(win_work.dirtables) > 0
    /\ LET r == dodirtable(win_work.rsrc, Head(win_work.dirtables), -1,
                           [dirtables |-> Tail(win_work.dirtables),
                            dataentries |-> win_work.dataentries])
       IN  IF IsOk(r)
           THEN /\ win_work' = [win_work EXCEPT !.dirtables = r.val.dirtables,
                                                !.dataentries = r.val.dataentries]
                /\ UNCHANGED <<win_out, win_pc>>
           ELSE win_out' = r /\ win_pc' = "done" /\ UNCHANGED win_work
    /\ UNCHANGED <<win_in, win_fon>>
    /\ UNCHANGED notWin

\* the list is empty: decode the data entries
PeFonts ==
    /\ win_pc = "tables"
    /\ Len(win_work.dirtables) = 0
    /\ win_out' = PefonFonts(win_work.rsrc, win_work.secrva, win_work.dataentries, 1, <<>>)
    /\ win_pc' = "done"
    /\ UNCHANGED <<win_in, win_fon, win_work>>
    /\ UNCHANGED notWin

NextPe == PeStart \/ PeTable \/ PeFonts

SpecPe == InitPe /\ [][NextPe]_vars

\* the bytes of the payload of a data entry: size bytes at RVA - secrva
PePayload(d) ==
    SubSeq(win_fon, 24 + 40 * Len(win_in.sec.names) + PePayloadAt(d.payload) + 1,
           24 + 40 * Len(win_in.sec.names) + PePayloadAt(d.payload) + PePayloadSize(d.payload))

\* the payloads of the data entries at or below a node
PeFontsBelow(node) ==
    IF node.kind = "data" THEN <<PePayload(node)>>
    ELSE Concat([j \in 1..Len(node.kids) |->
                    IF node.kids[j].kind = "data" THEN <<PePayload(node.kids[j])>>
                    ELSE <<PePayload(node.kids[j].kids[1])>>])

\* the payloads of the data entries reached from the root entries of id 8
PeFontsExpected ==
    Concat([i \in 1..Len(win_in.root) |->
               IF win_in.root[i].id = 8 THEN PeFontsBelow(win_in.root[i].sub) ELSE <<>>])

SameBag(a, b) ==
    /\ Len(a) = Len(b)
    /\ \A x \in Range(a) \cup Range(b) :
          Cardinality({k \in 1..Len(a) : a[k] = x}) = Cardinality({k \in 1..Len(b) : b[k] = x})

\* C10: pefon takes from the root directory (offset 0 of the .rsrc section) only the
\* entries of id 0x08 and from every directory below them all entries; it returns one
\* font per data entry reached this way, decoded from size bytes at section offset
\* (entry RVA - .rsrc RVA), and none for a data entry under another first-level type.
C10_PefonFonts ==
    win_pc = "done" =>
        /\ IsOk(win_out) => SameBag(win_out.val, PeFontsExpected)
        /\ (\E k \in 1..Len(win_in.sec.names) : win_in.sec.names[k] = <<46, 114, 115, 114, 99>>)
              => IsOk(win_out)

\* a font directly under a root entry of id 8, two below a directory of id 8, and a
\* root entry of id 3 whose data entry gives none
C10_Witness ==
    /\ win_pc = "done"
    /\ win_in.sec.secrva = 4096
    /\ Len(win_in.root) = 2
    /\ win_in.root[1].id = 3 /\ win_in.root[1].sub.kind = "data"
    /\ win_in.root[2].id = 8 /\ win_in.root[2].sub.kind = "dir"
    /\ Len(win_in.root[2].sub.kids) = 2
    /\ win_in.root[2].sub.kids[1].kind = "dir"
    /\ IsOk(win_out) /\ Len(win_out.val) = 2
    /\ <<1, 2, 3>> \in Range(win_out.val) /\ <<5, 6>> \in Range(win_out.val)

(***************************************************************************)
(* OS/2 LX resource table (formats/os2/lx.py, _read_lx)                    *)
(***************************************************************************)

OS2RES_FONTDIR == 6
OS2RES_FONTFACE == 7

\* a resource table entry: type and name of LXRTENTRY, whether the page map of its
\* object covers the resource, and for a font directory the usIndex of its entries
LxEntries ==
    [type : {OS2RES_FONTFACE, 3}, name : {1, 2}, covered : BOOLEAN, faces : {<<>>}]
    \cup [type : {OS2RES_FONTDIR}, name : {1, 2}, covered : {TRUE},
          faces : {<<>>, <<1>>, <<2>>, <<1, 2>>}]

\* _lx_extract_resource for entry i: the buffer of the entry's object, here named by
\* the entry; pBuf stays unbound when the pages do not cover the resource
_lx_extract_resource(table, i) ==
    IF table[i].covered THEN Ok(i) ELSE Err("UnboundLocalError")

\* ulResID after a font directory was parsed
LxDirIds_Accumulate(ulResID, entry) == ulResID \o entry.faces

LxDirIds(ulResID, entry) == entry.faces

\* `for i in range(lx_hd.cres)` from entry i on
RECURSIVE LxScan(_, _, _, _)
LxScan(table, i, ulResID, resources) ==
    IF i > Len(table) THEN Ok(resources)
    ELSE IF table[i].type \notin {OS2RES_FONTFACE, OS2RES_FONTDIR}
            /\ table[i].name \notin Range(ulResID)
    THEN LxScan(table, i + 1, ulResID, resources)
    ELSE IF ~IsOk(_lx_extract_resource(table, i)) THEN _lx_extract_resource(table, i)
    ELSE IF table[i].type = OS2RES_FONTDIR
    THEN LxScan(table, i + 1, LxDirIds(ulResID, table[i]), resources)
    ELSE LxScan(table, i + 1, ulResID, Append(resources, _lx_extract_resource(table, i).val))

_read_lx(table) ==
    IF Len(table) = 0 THEN Err("FileFormatError") ELSE LxScan(table, 1, <<>>, <<>>)

MaxLxEntries == 3

InitLxRead ==
    /\ FntIdle /\ RawIdle /\ SprIdle /\ ShtIdle /\ WinIdle /\ FontIdle /\ BmIdle /\ MacIdle
    /\ CpiIdle /\ AmiIdle /\ DdIdle /\ CnIdle /\ CvIdle
    /\ lx_recs \in UNION {[1..n -> LxEntries] : n \in 0..MaxLxEntries}
    /\ lx_page = <<>>
    /\ lx_out = Unset
    /\ lx_pc = "read_lx"

ReadLx ==
    /\ lx_pc = "read_lx"
    /\ lx_out' = _read_lx(lx_recs)
    /\ lx_pc' = "done_read"
    /\ UNCHANGED <<lx_recs, lx_page>>
    /\ UNCHANGED notLx

SpecLxRead == InitLxRead /\ [][ReadLx]_vars

\* the font directories before entry i
LxDirsBefore(i) == {j \in 1..(i - 1) : lx_recs[j].type = 6}

\* the entries that are font faces or listed by some earlier font directory
LxListedByAny ==
    {i \in 1..Len(lx_recs) :
        \/ lx_recs[i].type = 7
        \/ lx_recs[i].type # 6
           /\ \E j \in LxDirsBefore(i) : lx_recs[i].name \in Range(lx_recs[j].faces)}

\* the entries that are font faces or listed by the last font directory before them
LxListedByLast ==
    {i \in 1..Len(lx_recs) :
        \/ lx_recs[i].type = 7
        \/ lx_recs[i].type # 6 /\ LxDirsBefore(i) # {}
           /\ lx_recs[i].name \in Range(lx_recs[SetMax(LxDirsBefore(i))].faces)}

\* the result holds the entries of S, each once, in table order
LxReturns(S) ==
    /\ Range(lx_out.val) = S
    /\ \A a, b \in 1..Len(lx_out.val) : a < b => lx_out.val[a] < lx_out.val[b]

\* C11 as stated: _read_lx returns, in table order, one resource for every entry of
\* type 7 and for every entry of another type whose name id was listed by a font
\* directory (type 6) earlier in the table, whichever earlier directory listed it;
\* entries listed only by a later directory and the directories themselves are not
\* returned.
C11_ListedByAnyEarlierDir ==
    (lx_pc = "done_read" /\ IsOk(lx_out)) => LxReturns(LxListedByAny)

\* C11 amended: the same with the ids of the last font directory before the entry:
\* each directory replaces the ids of the one before it.
C11_ListedByLastDir ==
    (lx_pc = "done_read" /\ IsOk(lx_out)) => LxReturns(LxListedByLast)

\* a directory listing id 1, an entry of another type with name 1, and a font face
C11_Witness ==
    /\ lx_pc = "done_read"
    /\ Len(lx_recs) = 3
    /\ lx_recs[1].type = 6 /\ lx_recs[1].faces = <<1>>
    /\ lx_recs[2].type = 3 /\ lx_recs[2].name = 1
    /\ lx_recs[3].type = 7
    /\ lx_out = Ok(<<2, 3>>)

(***************************************************************************)
(* Font: labels and lookup tables (font.py, class Font)                    *)
(***************************************************************************)

\* a glyph as far as its labels go: codepoint (<<>> when unset), char ("" when
\* unset) and the set of its tags
LabelGlyph(codepoint, char, tags) == [codepoint |-> codepoint, char |-> char, tags |-> tags]

\* the charmap "enc": codepoint 0 is "a", codepoint 1 is "b"
CharmapChar(codepoint) ==
    IF codepoint = <<0>> THEN "a" ELSE IF codepoint = <<1>> THEN "b" ELSE ""

CharmapCodepoint(char) ==
    IF char = "a" THEN <<0>> ELSE IF char = "b" THEN <<1>> ELSE <<>>

\* charmaps[encoding]: TRUE when a charmap of that name exists
_get_encoder(props) == props.encoding = "enc"

\* Glyph.add_labels(encoding): the char is taken from the codepoint when unset
add_labels(glyph) ==
    IF glyph.char = "" /\ glyph.codepoint # <<>>
    THEN [glyph EXCEPT !.char = CharmapChar(glyph.codepoint)]
    ELSE glyph

_add_labels(glyphs, props) ==
    LET has_codepoint == \E i \in 1..Len(glyphs) : glyphs[i].codepoint # <<>>
        has_char == \E i \in 1..Len(glyphs) : glyphs[i].char # ""
        indexed == IF ~has_codepoint /\ ~has_char
                   THEN [i \in 1..Len(glyphs) |-> [glyphs[i] EXCEPT !.codepoint = <<i - 1>>]]
                   ELSE glyphs
    IN  IF _get_encoder(props)
        THEN [i \in 1..Len(indexed) |-> add_labels(indexed[i])]
        ELSE indexed

\* {label: index for index, glyph in enumerate(glyphs)}: the last glyph wins
TagTable(glyphs) ==
    [t \in UNION {glyphs[i].tags : i \in 1..Len(glyphs)} |->
        SetMax({i - 1 : i \in {j \in 1..Len(glyphs) : t \in glyphs[j].tags}})]

\* the table as enumerate(glyphs, 1) would fill it
CodepointTable_OneBased(glyphs) ==
    [c \in {glyphs[i].codepoint : i \in 1..Len(glyphs)} \ {<<>>} |->
        SetMax({i \in 1..Len(glyphs) : glyphs[i].codepoint = c})]

CodepointTable(glyphs) ==
    [c \in {glyphs[i].codepoint : i \in 1..Len(glyphs)} \ {<<>>} |->
        SetMax({i - 1 : i \in {j \in 1..Len(glyphs) : glyphs[j].codepoint = c}})]

CharTable(glyphs) ==
    [c \in {glyphs[i].char : i \in 1..Len(glyphs)} \ {""} |->
        SetMax({i - 1 : i \in {j \in 1..Len(glyphs) : glyphs[j].char = c}})]

\* Font.__init__
Font(glyphs, props) ==
    LET labelled == _add_labels(glyphs, props)
    IN  [glyphs |-> labelled, props |-> props,
         _tags |-> TagTable(labelled),
         _codepoints |-> CodepointTable(labelled),
         _chars |-> CharTable(labelled)]

\* Font.get_index with one of tag=, char=, codepoint=
get_index(font, kind, label) ==
    LET table == IF kind = "tag" THEN font._tags
                 ELSE IF kind = "char" THEN font._chars ELSE font._codepoints
    IN  IF label \in DOMAIN table THEN Ok(table[label]) ELSE Err("KeyError")

\* Font.get_glyph(..., missing=None) as a list of no or one glyph
GetGlyphOrNone(font, kind, label) ==
    IF IsOk(get_index(font, kind, label))
    THEN <<font.glyphs[get_index(font, kind, label).val + 1]>>
    ELSE <<>>

RECURSIVE GetGlyphs(_, _, _)
GetGlyphs(font, kind, labels) ==
    IF labels = <<>> THEN <<>>
    ELSE GetGlyphOrNone(font, kind, Head(labels)) \o GetGlyphs(font, kind, Tail(labels))

\* Font.modify(glyphs, encoding=...); NOT_SET keeps what the font has
\* (arguments are passed as Given(value) or as NOT_SET)
Given(value) == [set |-> TRUE, val |-> value]

NOT_SET(glyphs) == [set |-> FALSE, val |-> IF glyphs THEN <<>> ELSE ""]

modify(font, glyphs, encoding) ==
    Font(IF glyphs.set THEN glyphs.val ELSE font.glyphs,
         IF encoding.set THEN [font.props EXCEPT !.encoding = encoding.val] ELSE font.props)

\* Font.add(glyphs)
add(font, glyphs) == modify(font, Given(font.glyphs \o glyphs), NOT_SET(FALSE))

\* a property that was not given to the constructor
NotDefined == [set |-> FALSE, val |-> 0]

\* the properties left after Font.drop(*args)
DropProps(props, args) ==
    [encoding |-> IF "encoding" \in args THEN "" ELSE props.encoding,
     ascent |-> IF "ascent" \in args THEN NotDefined ELSE props.ascent,
     descent |-> IF "descent" \in args THEN NotDefined ELSE props.descent,
     shift_up |-> props.shift_up]

\* Font.drop(*args) for 'glyphs' and the properties encoding, ascent, descent
drop(font, args) ==
    Font(IF "glyphs" \in args THEN <<>> ELSE font.glyphs, DropProps(font.props, args))

\* Font.subset(chars=, codepoints=, tags=)
subset(font, chars, codepoints, tags) ==
    modify(font,
           Given(GetGlyphs(font, "char", chars) \o GetGlyphs(font, "codepoint", codepoints)
                     \o GetGlyphs(font, "tag", tags)),
           NOT_SET(FALSE))

\* Font.without(chars=, codepoints=, tags=)
without(font, chars, codepoints, tags) ==
    IF chars = <<>> /\ codepoints = <<>> /\ tags = <<>> THEN font
    ELSE modify(font,
                Given(SelectSeq(font.glyphs,
                                LAMBDA g : /\ g.char \notin Range(chars)
                                           /\ g.codepoint \notin Range(codepoints)
                                           /\ g.tags \cap Range(tags) = {})),
                NOT_SET(FALSE))

\* the glyph of the other font as merged_with appends it
MergedGlyph(font, glyph) ==
    LET new_tags == glyph.tags \ DOMAIN font._tags
    IN  IF _get_encoder(font.props)
        THEN [glyph EXCEPT !.tags = new_tags, !.codepoint = CharmapCodepoint(glyph.char)]
        ELSE [glyph EXCEPT !.tags = new_tags]

RECURSIVE MergedGlyphs(_, _)
MergedGlyphs(font, others) ==
    IF others = <<>> THEN <<>>
    ELSE (IF Head(others).char \notin DOMAIN font._chars
          THEN <<MergedGlyph(font, Head(others))>> ELSE <<>>)
         \o MergedGlyphs(font, Tail(others))

\* Font.merged_with(other)
merged_with(font, other) ==
    modify(font, Given(font.glyphs \o MergedGlyphs(font, other.glyphs)), NOT_SET(FALSE))

MaxFontGlyphs == 2

FontLabelGlyphs ==
    {LabelGlyph(c, ch, t) : c \in {<<>>, <<1>>}, ch \in {"", "a"}, t \in {{}, {"t"}}}

FontLabelLists(n) == UNION {[1..k -> FontLabelGlyphs] : k \in 0..n}

FontEncodings == {"", "enc"}

FontProps == [encoding : FontEncodings, ascent : {NotDefined}, descent : {NotDefined}, shift_up : {0}]

InitFontLabels ==
    /\ FntIdle /\ RawIdle /\ SprIdle /\ ShtIdle /\ LxIdle /\ WinIdle /\ BmIdle /\ MacIdle
    /\ CpiIdle /\ AmiIdle /\ DdIdle /\ CnIdle /\ CvIdle
    /\ \E glyphs \in FontLabelLists(MaxFontGlyphs), props \in FontProps :
           fo_font = Font(glyphs, props)
    /\ fo_last = "Font"

FontModify ==
    /\ \E glyphs \in {Given(g) : g \in FontLabelLists(1)} \cup {NOT_SET(TRUE)},
          encoding \in {Given(e) : e \in FontEncodings} \cup {NOT_SET(FALSE)} :
           fo_font' = modify(fo_font, glyphs, encoding)
    /\ fo_last' = "modify"
    /\ UNCHANGED notFont

FontAdd ==
    /\ Len(fo_font.glyphs) < MaxFontGlyphs
    /\ \E glyphs \in FontLabelLists(1) : fo_font' = add(fo_font, glyphs)
    /\ fo_last' = "add"
    /\ UNCHANGED notFont

FontDrop ==
    /\ \E args \in SUBSET {"glyphs", "encoding"} : fo_font' = drop(fo_font, args)
    /\ fo_last' = "drop"
    /\ UNCHANGED notFont

FontLabelArgs(labels) == {<<>>} \cup {<<l>> : l \in labels}

FontSubset ==
    /\ \E chars \in FontLabelArgs({"a", "b"}), codepoints \in {<<>>, <<<<1>>>>, <<<<0>>, <<1>>>>},
          tags \in FontLabelArgs({"t"}) :
           /\ Len(GetGlyphs(fo_font, "char", chars)) + Len(GetGlyphs(fo_font, "codepoint", codepoints))
                  + Len(GetGlyphs(fo_font, "tag", tags)) <= MaxFontGlyphs
           /\ fo_font' = subset(fo_font, chars, codepoints, tags)
    /\ fo_last' = "subset"
    /\ UNCHANGED notFont

FontWithout ==
    /\ \E chars \in FontLabelArgs({"a", "b"}), codepoints \in FontLabelArgs({<<0>>, <<1>>}),
          tags \in FontLabelArgs({"t"}) :
           fo_font' = without(fo_font, chars, codepoints, tags)
    /\ fo_last' = "without"
    /\ UNCHANGED notFont

FontMergedWith ==
    /\ Len(fo_font.glyphs) < MaxFontGlyphs
    /\ \E glyphs \in FontLabelLists(1), props \in FontProps :
           fo_font' = merged_with(fo_font, Font(glyphs, props))
    /\ fo_last' = "merged_with"
    /\ UNCHANGED notFont

NextFontLabels ==
    FontModify \/ FontAdd \/ FontDrop \/ FontSubset \/ FontWithout \/ FontMergedWith

SpecFontLabels == InitFontLabels /\ [][NextFontLabels]_vars

\* every entry of the table points to a glyph of the font
FontTablePointsInside(table) ==
    \A l \in DOMAIN table : table[l] \in 0..(Len(fo_font.glyphs) - 1)

\* C12: for every Font, built directly or returned by modify, add, drop, subset,
\* without or merged_with, each entry of the tag, codepoint and char tables points to
\* a glyph carrying that label, and every non-empty label carried by a glyph is a key
\* of its table.
C12_LabelTablesConsistent ==
    /\ FontTablePointsInside(fo_font._tags)
    /\ FontTablePointsInside(fo_font._codepoints)
    /\ FontTablePointsInside(fo_font._chars)
    /\ \A t \in DOMAIN fo_font._tags : t \in fo_font.glyphs[fo_font._tags[t] + 1].tags
    /\ \A c \in DOMAIN fo_font._codepoints :
           fo_font.glyphs[fo_font._codepoints[c] + 1].codepoint = c
    /\ \A c \in DOMAIN fo_font._chars : fo_font.glyphs[fo_font._chars[c] + 1].char = c
    /\ \A i \in 1..Len(fo_font.glyphs) :
           /\ fo_font.glyphs[i].tags \subseteq DOMAIN fo_font._tags
           /\ fo_font.glyphs[i].codepoint # <<>> =>
                  fo_font.glyphs[i].codepoint \in DOMAIN fo_font._codepoints
           /\ fo_font.glyphs[i].char # "" => fo_font.glyphs[i].char \in DOMAIN fo_font._chars

\* a merged font of two glyphs that share a tag, with chars taken from the charmap
C12_Witness ==
    /\ fo_last = "merged_with"
    /\ Len(fo_font.glyphs) = 2
    /\ fo_font.props.encoding = "enc"
    /\ fo_font.glyphs[1].char = "b" /\ fo_font.glyphs[2].char = "a"
    /\ fo_font._codepoints = (<<1>> :> 0) @@ (<<0>> :> 1)
    /\ DOMAIN fo_font._chars = {"a", "b"}

(***************************************************************************)
(* Font: vertical metrics (font.py, class FontProperties)                  *)
(***************************************************************************)

\* a glyph as far as its vertical metrics go: the height of its raster and the blank
\* rows above and below its ink (Glyph.padding)
MetricGlyph(height, top, bottom) ==
    [codepoint |-> <<>>, char |-> "", tags |-> {},
     height |-> height, padding_top |-> top, padding_bottom |-> bottom]

\* FontProperties.ascent: the value given, else calculated from the glyphs
ascent(font) ==
    IF font.props.ascent.set THEN font.props.ascent.val
    ELSE IF font.glyphs = <<>> THEN 0
    ELSE font.props.shift_up
         + SetMax({font.glyphs[i].height - font.glyphs[i].padding_top : i \in 1..Len(font.glyphs)})

\* FontProperties.descent
descent(font) ==
    IF font.props.descent.set THEN font.props.descent.val
    ELSE IF font.glyphs = <<>> THEN 0
    ELSE (0 - font.props.shift_up)
         - SetMin({font.glyphs[i].padding_bottom : i \in 1..Len(font.glyphs)})

\* FontProperties.pixel_size
pixel_size(font) ==
    IF font.glyphs = <<>> THEN 0 ELSE ascent(font) + descent(font)

\* Font.set(ascent=, descent=, shift_up=): modify with property keywords
set_metrics(font, asc, desc, shift) ==
    Font(font.glyphs,
         [font.props EXCEPT !.ascent = IF asc.set THEN asc ELSE @,
                            !.descent = IF desc.set THEN desc ELSE @,
                            !.shift_up = shift])

MaxMetricGlyphs == 2
MaxMetric == 2

MetricGlyphs ==
    {MetricGlyph(h, t, b) : h \in 1..2, t \in 0..1, b \in 0..1} \ {MetricGlyph(1, 1, 1)}

MetricValues == {NotDefined} \cup {Given(v) : v \in 0..MaxMetric}

MetricShifts == {-1, 0}

InitFontMetrics ==
    /\ FntIdle /\ RawIdle /\ SprIdle /\ ShtIdle /\ LxIdle /\ WinIdle /\ BmIdle /\ MacIdle
    /\ CpiIdle /\ AmiIdle /\ DdIdle /\ CnIdle /\ CvIdle
    /\ \E glyphs \in UNION {[1..k -> MetricGlyphs] : k \in 0..MaxMetricGlyphs},
          asc \in MetricValues, desc \in MetricValues, shift \in MetricShifts :
           fo_font = Font(glyphs, [encoding |-> "", ascent |-> asc, descent |-> desc,
                                   shift_up |-> shift])
    /\ fo_last = "Font"

FontSetMetrics ==
    /\ \E asc \in MetricValues, desc \in MetricValues, shift \in MetricShifts :
           fo_font' = set_metrics(fo_font, asc, desc, shift)
    /\ fo_last' = "set"
    /\ UNCHANGED notFont

FontDropMetrics ==
    /\ \E args \in SUBSET {"glyphs", "ascent", "descent"} : fo_font' = drop(fo_font, args)
    /\ fo_last' = "drop"
    /\ UNCHANGED notFont

FontAddMetricGlyph ==
    /\ Len(fo_font.glyphs) < MaxMetricGlyphs
    /\ \E g \in MetricGlyphs : fo_font' = add(fo_font, <<g>>)
    /\ fo_last' = "add"
    /\ UNCHANGED notFont

NextFontMetrics == FontSetMetrics \/ FontDropMetrics \/ FontAddMetricGlyph

SpecFontMetrics == InitFontMetrics /\ [][NextFontMetrics]_vars

\* C13: whenever ascent and descent are both defined, pixel_size = ascent + descent,
\* for every glyph list, a font with no glyphs whose ascent and descent are set
\* included.
C13_PixelSizeIsSum ==
    (fo_font.props.ascent.set /\ fo_font.props.descent.set) =>
        pixel_size(fo_font) = ascent(fo_font) + descent(fo_font)

\* the glyphs were dropped from a font of ascent 2 and descent 1: pixel_size is 0
C13_EmptyFontPixelSize ==
    /\ fo_last = "drop"
    /\ fo_font.glyphs = <<>>
    /\ ascent(fo_font) = 2 /\ descent(fo_font) = 1
    /\ pixel_size(fo_font) = 0

(***************************************************************************)
(* BMFont: glyph extraction from the sprite sheet (bmfont.py, _extract)    *)
(***************************************************************************)

_CHNL_R == 4
_CHNL_G == 2
_CHNL_B == 1
_CHNL_A == 8

\* chnl & bit
HasChnl(chnl, bit) == (chnl \div bit) % 2 = 1

\* the channels of a char that are kept: those it is stored in, unless the common
\* block marks them as outline, zeroed or oned
ChannelMasks(char, common) ==
    LET chnl == IF char.chnl = 0 THEN 15 ELSE char.chnl
    IN  <<HasChnl(chnl, _CHNL_R) /\ common.redChnl \in {0, 2},
          HasChnl(chnl, _CHNL_G) /\ common.greenChnl \in {0, 2},
          HasChnl(chnl, _CHNL_B) /\ common.blueChnl \in {0, 2},
          HasChnl(chnl, _CHNL_A) /\ common.alphaChnl \in {0, 2}>>

\* tuple(_pix for _pix, _mask in zip(_rgba, masks) if _mask)
MaskPixel(rgba, masks) ==
    (IF masks[1] THEN <<rgba[1]>> ELSE <<>>) \o (IF masks[2] THEN <<rgba[2]>> ELSE <<>>)
    \o (IF masks[3] THEN <<rgba[3]>> ELSE <<>>) \o (IF masks[4] THEN <<rgba[4]>> ELSE <<>>)

\* sheet.crop(...).getdata() on a sheet of one row
CropData(sheet, char) == [k \in 1..char.width |-> sheet[char.x + k]]

\* the masked sprite of a char
MaskedSprite(sheet, char, common) ==
    IF char.width # 0 /\ char.height # 0
    THEN [k \in 1..char.width |-> MaskPixel(CropData(sheet, char)[k], ChannelMasks(char, common))]
    ELSE <<>>

Sprites(sheet, chars, common) ==
    [i \in 1..Len(chars) |-> MaskedSprite(sheet, chars[i], common)]

\* set(_tup for _sprite in sprites for _tup in _sprite)
ColourSet(sprites) == UNION {Range(sprites[i]) : i \in 1..Len(sprites)}

\* list(set(...)): the colours in the order the set yields them, whichever it is
ColourLists(colours) ==
    {l \in [1..Cardinality(colours) -> colours] : Range(l) = colours}

\* sum of the channels of a masked colour
ChannelSum(colour) == SumSeq(colour)

\* the foreground colour picked from a colour list of two
Foreground(colourset) ==
    IF ChannelSum(colourset[1]) > ChannelSum(colourset[2]) THEN colourset[1] ELSE colourset[2]

\* Glyph.expand(left, top, right, bottom) on a raster of one row or none
ExpandRows(rows, left, top, right, bottom) ==
    LET width == left + (IF rows = <<>> THEN 0 ELSE Len(rows[1])) + right
        blank == [k \in 1..width |-> 0]
        wide == [r \in 1..Len(rows) |->
                    [k \in 1..left |-> 0] \o rows[r] \o [k \in 1..right |-> 0]]
    IN  [r \in 1..top |-> blank] \o wide \o [r \in 1..bottom |-> blank]

\* the glyph of one char, labelled with the number of glyphs made before it
ExtractGlyph(char, sprite, fg, index, min_before, min_after, max_height) ==
    IF char.width # 0 /\ char.height # 0
    THEN [rows |-> ExpandRows(<<[k \in 1..Len(sprite) |-> IF sprite[k] = fg THEN 1 ELSE 0]>>,
                              char.xoffset - min_before, char.yoffset,
                              (char.xadvance - char.xoffset - char.width) - min_after,
                              max_height - (char.height + char.yoffset)),
          codepoint |-> index]
    ELSE [rows |-> [r \in 1..max_height |-> [k \in 1..(char.xadvance - min_after) |-> 0]],
          codepoint |-> index]

\* _extract for the colour list the set yielded
_extract(sheet, chars, common, colourset) ==
    IF chars = <<>> THEN Ok([glyphs |-> <<>>, tracking |-> 0, offset_x |-> 0])
    ELSE
    LET min_after == SetMin({chars[i].xadvance - chars[i].xoffset - chars[i].width :
                                i \in 1..Len(chars)})
        min_before == SetMin({chars[i].xoffset : i \in 1..Len(chars)})
        max_height == SetMax({chars[i].height + chars[i].yoffset : i \in 1..Len(chars)})
        sprites == Sprites(sheet, chars, common)
        fg == IF Len(colourset) = 2 THEN Foreground(colourset) ELSE <<-1>>
    IN  IF Len(colourset) > 2 THEN Err("ValueError")
        ELSE Ok([glyphs |-> [i \in 1..Len(chars) |->
                                ExtractGlyph(chars[i], sprites[i], fg, i - 1,
                                             min_before, min_after, max_height)],
                 tracking |-> min_after,
                 offset_x |-> min_before])

MaxBmChars == 2
MaxBmSheet == 2

BmBlack == <<0, 0, 0, 255>>
BmWhite == <<255, 255, 255, 255>>
BmBlue == <<0, 0, 255, 0>>

BmSheets == [1..MaxBmSheet -> {BmBlack, BmWhite, BmBlue}]

BmChars ==
    {c \in [id : {65, 66}, x : 0..(MaxBmSheet - 1), y : {0}, width : 0..MaxBmSheet, height : {0, 1},
            xoffset : {0, 1}, yoffset : {0}, xadvance : {2, 3}, page : {0}, chnl : {0, 7}] :
        /\ c.x + c.width <= MaxBmSheet
        /\ (c.width = 0) = (c.height = 0)
        /\ c.width = 0 => c.x = 0
        /\ c.xoffset + c.width <= c.xadvance}

BmCommons == [redChnl : {0}, greenChnl : {0}, blueChnl : {0}, alphaChnl : {0, 1}]

InitBmExtract ==
    /\ FntIdle /\ RawIdle /\ SprIdle /\ ShtIdle /\ LxIdle /\ WinIdle /\ FontIdle /\ MacIdle
    /\ CpiIdle /\ AmiIdle /\ DdIdle /\ CnIdle /\ CvIdle
    /\ bm_in \in [sheet : BmSheets, common : BmCommons,
                  chars : UNION {[1..n -> BmChars] : n \in 0..MaxBmChars}]
    /\ bm_out = Unset
    /\ bm_pc = "extract"

BmExtract ==
    /\ bm_pc = "extract"
    /\ \E colourset \in ColourLists(ColourSet(Sprites(bm_in.sheet, bm_in.chars, bm_in.common))) :
           bm_out' = _extract(bm_in.sheet, bm_in.chars, bm_in.common, colourset)
    /\ bm_pc' = "done_extract"
    /\ UNCHANGED bm_in
    /\ UNCHANGED notBm

SpecBmExtract == InitBmExtract /\ [][BmExtract]_vars

\* the masked colours of the input
BmColours == ColourSet(Sprites(bm_in.sheet, bm_in.chars, bm_in.common))

\* the pixels of glyph i that came from the sprite are set exactly where it has colour c
BmInkIs(i, c) ==
    LET char == bm_in.chars[i]
        sprite == MaskedSprite(bm_in.sheet, char, bm_in.common)
        left == char.xoffset - bm_out.val.offset_x
    IN  \A k \in 1..Len(sprite) :
            (bm_out.val.glyphs[i].rows[1][left + k] = 1) = (sprite[k] = c)

\* C14: with more than two masked colours decoding fails and no font is produced;
\* with exactly two, the darker one (smaller channel sum) is ink, the other paper.
C14_DarkerIsInk ==
    bm_pc = "done_extract" =>
        /\ Cardinality(BmColours) > 2 => ~IsOk(bm_out)
        /\ \A dark, light \in BmColours :
               (Cardinality(BmColours) = 2 /\ SumSeq(dark) < SumSeq(light)) =>
                   /\ IsOk(bm_out)
                   /\ \A i \in 1..Len(bm_in.chars) :
                          bm_in.chars[i].width # 0 => BmInkIs(i, dark)

\* a black and a white pixel in one sprite: the white one is ink
C14_BrighterIsInk ==
    /\ bm_pc = "done_extract"
    /\ Len(bm_in.chars) = 1
    /\ bm_in.chars[1].width = 2 /\ bm_in.chars[1].xoffset = 0 /\ bm_in.chars[1].xadvance = 2
    /\ bm_in.sheet = <<<<0, 0, 0, 255>>, <<255, 255, 255, 255>>>>
    /\ IsOk(bm_out)
    /\ bm_out.val.glyphs[1].rows = <<<<0, 1>>>>

\* the advance of glyph i: left bearing, raster width and right bearing
BmAdvance(i) ==
    LET rows == bm_out.val.glyphs[i].rows
    IN  bm_out.val.offset_x + (IF rows = <<>> THEN 0 ELSE Len(rows[1])) + bm_out.val.tracking

\* C15: every glyph decoded from a BMFont descriptor carries the codepoint equal to the
\* id of its char record, whatever the record's position, and its advance is the
\* record's xadvance.
C15_CodepointIsCharId ==
    (bm_pc = "done_extract" /\ IsOk(bm_out)) =>
        \A i \in 1..Len(bm_in.chars) :
            /\ bm_out.val.glyphs[i].codepoint = bm_in.chars[i].id
            /\ BmAdvance(i) = bm_in.chars[i].xadvance

\* the single char of id 65 decodes to one glyph at codepoint 0
C15_CodepointIsPosition ==
    /\ bm_pc = "done_extract"
    /\ Len(bm_in.chars) = 1
    /\ bm_in.chars[1].id = 65 /\ bm_in.chars[1].width = 1
    /\ IsOk(bm_out)
    /\ Len(bm_out.val.glyphs) = 1
    /\ bm_out.val.glyphs[1].codepoint = 0

(***************************************************************************)
(* BMFont: binary descriptor (bmfont.py, _parse_binary)                    *)
(***************************************************************************)

_BLK_INFO == 1
_BLK_COMMON == 2
_BLK_PAGES == 3
_BLK_CHARS == 4
_BLK_KERNINGS == 5

BM_HEAD_SIZE == 4
BLKHEAD_SIZE == 5
COMMON_SIZE == 15
CHAR_SIZE == 20
KERNING_SIZE == 10

\* the struct a block header selects: its tag and its size in bytes; the struct and
\* the tag of the block before are kept when the typeId is none of the five
BlockStruct(typeId, blkSize, props, before) ==
    IF typeId = _BLK_INFO THEN Ok([tag |-> "info", size |-> blkSize])
    ELSE IF typeId = _BLK_COMMON THEN Ok([tag |-> "common", size |-> COMMON_SIZE])
    ELSE IF typeId = _BLK_PAGES
    THEN IF "common" \notin DOMAIN props THEN Err("KeyError")
         ELSE IF props["common"].pages = 0 THEN Err("ZeroDivisionError")
         ELSE Ok([tag |-> "pages",
                  size |-> (blkSize \div props["common"].pages) * props["common"].pages])
    ELSE IF typeId = _BLK_CHARS
    THEN Ok([tag |-> "chars", size |-> CHAR_SIZE * (blkSize \div CHAR_SIZE)])
    ELSE IF typeId = _BLK_KERNINGS
    THEN Ok([tag |-> "kernings", size |-> KERNING_SIZE * (blkSize \div KERNING_SIZE)])
    ELSE IF before.tag = "" THEN Err("UnboundLocalError")
    ELSE Ok(before)

\* blk.from_bytes(data, at): where the struct was read, and the pages field that a
\* common struct holds at byte 8
BlockRead(data, at, blk) ==
    [at |-> at, size |-> blk.size,
     pages |-> IF blk.size >= 10 THEN data[at + 9] + 256 * data[at + 10] ELSE 0]

\* the while loop of _parse_binary from offset on
RECURSIVE ParseBlocks(_, _, _, _)
ParseBlocks(data, offset, props, before) ==
    IF offset >= Len(data) THEN Ok(props)
    ELSE IF offset + BLKHEAD_SIZE > Len(data) THEN Err("ValueError")
    ELSE
    LET typeId == data[offset + 1]
        blkSize == data[offset + 2] + 256 * data[offset + 3] + 65536 * data[offset + 4]
                       + 16777216 * data[offset + 5]
        blk == BlockStruct(typeId, blkSize, props, before)
        at == offset + BLKHEAD_SIZE
    IN  IF ~IsOk(blk) THEN blk
        ELSE IF at + blk.val.size > Len(data) THEN Err("ValueError")
        ELSE ParseBlocks(data, at + blk.val.size,
                         (blk.val.tag :> BlockRead(data, at, blk.val)) @@ props, blk.val)

_parse_binary(data) ==
    IF Len(data) < BM_HEAD_SIZE THEN Err("ValueError")
    ELSE LET props == ParseBlocks(data, BM_HEAD_SIZE, <<>>, [tag |-> "", size |-> 0])
         IN  IF ~IsOk(props) THEN props
             ELSE IF {"info", "pages", "chars"} \subseteq DOMAIN props.val THEN props
             ELSE Err("KeyError")

MaxBmBlocks == 5

\* blocks of a descriptor: the five known ones, well formed, and blocks of type 9
BmBlocks ==
    {[typeId |-> _BLK_INFO, blkSize |-> 15], [typeId |-> _BLK_COMMON, blkSize |-> 15],
     [typeId |-> _BLK_PAGES, blkSize |-> 2], [typeId |-> _BLK_CHARS, blkSize |-> 20],
     [typeId |-> _BLK_KERNINGS, blkSize |-> 10],
     [typeId |-> 9, blkSize |-> 0], [typeId |-> 9, blkSize |-> 15], [typeId |-> 9, blkSize |-> 20]}

\* payload: zeroes, with pages = 1 at byte 8
BmBlockBytes(b) ==
    <<b.typeId>> \o DWordLE(b.blkSize) \o [k \in 1..b.blkSize |-> IF k = 9 THEN 1 ELSE 0]

RECURSIVE BmBlocksBytes(_)
BmBlocksBytes(blocks) ==
    IF blocks = <<>> THEN <<>> ELSE BmBlockBytes(Head(blocks)) \o BmBlocksBytes(Tail(blocks))

BmDescriptor(blocks) == <<66, 77, 70, 3>> \o BmBlocksBytes(blocks)

InitBmBinary ==
    /\ FntIdle /\ RawIdle /\ SprIdle /\ ShtIdle /\ LxIdle /\ WinIdle /\ FontIdle /\ MacIdle
    /\ CpiIdle /\ AmiIdle /\ DdIdle /\ CnIdle /\ CvIdle
    /\ \E blocks \in UNION {[1..n -> BmBlocks] : n \in 0..MaxBmBlocks} :
           bm_in = [blocks |-> blocks, data |-> BmDescriptor(blocks)]
    /\ bm_out = Unset
    /\ bm_pc = "parse_binary"

BmParseBinary ==
    /\ bm_pc = "parse_binary"
    /\ bm_out' = _parse_binary(bm_in.data)
    /\ bm_pc' = "done_binary"
    /\ UNCHANGED bm_in
    /\ UNCHANGED notBm

SpecBmBinary == InitBmBinary /\ [][BmParseBinary]_vars

\* C16: _parse_binary rejects with an error a descriptor that contains a block whose
\* typeId is not one of 1..5, wherever the block stands, and never reads its payload
\* as one of the known block types.
C16_UnknownBlockRejected ==
    (bm_pc = "done_binary" /\ \E i \in 1..Len(bm_in.blocks) : bm_in.blocks[i].typeId \notin 1..5)
        => ~IsOk(bm_out)

\* a block of type 9 behind the chars block is read as the chars block
C16_UnknownReadAsChars ==
    /\ bm_pc = "done_binary"
    /\ Len(bm_in.blocks) = 5
    /\ [i \in 1..5 |-> bm_in.blocks[i].typeId] = <<1, 2, 3, 4, 9>>
    /\ IsOk(bm_out)
    /\ bm_out.val["chars"].at = Len(bm_in.data) - 20

(***************************************************************************)
(* create_fnt on fonts with codepoints beyond a byte                       *)
(***************************************************************************)

FntWideCodepoints == {254, 255, 256, 300}

FntWideGlyphs ==
    {g \in UNION {{Glyph(rows, w, cp) : rows \in FntRasters(w), cp \in FntWideCodepoints}
                  : w \in FntWidths} : HasInk(g)}

InitFntWide ==
    /\ RawIdle /\ SprIdle /\ ShtIdle /\ LxIdle /\ WinIdle /\ FontIdle /\ BmIdle /\ MacIdle
    /\ CpiIdle /\ AmiIdle /\ DdIdle /\ CnIdle /\ CvIdle
    /\ fnt_font \in FntFontsFrom(FntWideGlyphs)
    /\ fnt_version \in FntVersions
    /\ fnt_file = Unset
    /\ fnt_out = Unset
    /\ fnt_pc = "font"

SpecFntWide == InitFntWide /\ [][CreateFnt]_vars

\* C17: create_fnt fails with an error, and produces no FNT bytes, for every font that
\* holds a glyph whose codepoint is above 255; it never produces a file from which
\* such a glyph is silently missing.
C17_WideCodepointFails ==
    (fnt_pc # "font" /\ \E i \in 1..Len(fnt_font) : fnt_font[i].codepoint > 255)
        => ~IsOk(fnt_file)

\* a font with glyphs of width 1 at 255 and 300 was written: the file covers the
\* codepoint 255 alone, its body being two table entries, two bitmaps and two names
C17_GlyphSilentlyMissing ==
    /\ fnt_pc = "file"
    /\ fnt_version = 512
    /\ Len(fnt_font) = 2
    /\ fnt_font[1].codepoint = 255 /\ fnt_font[2].codepoint = 300
    /\ fnt_font[1].width = 1 /\ fnt_font[2].width = 1
    /\ IsOk(fnt_file)
    /\ fnt_file.val.dfFirstChar = 255 /\ fnt_file.val.dfLastChar = 255
    /\ Len(fnt_file.val.body) = 2 * 4 + 2 * fnt_file.val.dfPixHeight + 2

(***************************************************************************)
(* Windows FNT header properties (winfnt.py, _parse_win_props, create_fnt) *)
(***************************************************************************)

_FALLBACK_CHARSET == 255

CharsetCodes == {0, 1, 2, 77, 128, 129, 130, 134, 136, 161, 162, 163, 177, 178, 186, 204, 222, 238, 255}

\* CHARSET_MAP[charset] for a charset of CharsetCodes
CHARSET_MAP(charset) ==
    CASE charset = 0 -> "windows-1252"
      [] charset = 1 -> ""
      [] charset = 2 -> "windows-symbol"
      [] charset = 77 -> "mac-roman"
      [] charset = 128 -> "windows-932"
      [] charset = 129 -> "windows-949"
      [] charset = 130 -> "windows-1361"
      [] charset = 134 -> "windows-936"
      [] charset = 136 -> "windows-950"
      [] charset = 161 -> "windows-1253"
      [] charset = 162 -> "windows-1254"
      [] charset = 163 -> "windows-1258"
      [] charset = 177 -> "windows-1255"
      [] charset = 178 -> "windows-1256"
      [] charset = 186 -> "windows-1257"
      [] charset = 204 -> "windows-1251"
      [] charset = 222 -> "windows-874"
      [] charset = 238 -> "windows-1250"
      [] charset = 255 -> ""

\* CHARSET_REVERSE_MAP.get(encoding, _FALLBACK_CHARSET)
CHARSET_REVERSE_MAP(encoding) ==
    IF encoding = "" THEN 255
    ELSE IF encoding \in {"windows-ansi-2.0", "windows-1252", "latin-1", "unicode"} THEN 0
    ELSE IF \E c \in CharsetCodes : CHARSET_MAP(c) = encoding
    THEN CHOOSE c \in CharsetCodes : CHARSET_MAP(c) = encoding
    ELSE _FALLBACK_CHARSET

\* _STYLE_MAP[family]; only the six families are keys
_STYLE_MAP(family) ==
    CASE family = 0 -> Ok("")
      [] family = 16 -> Ok("serif")
      [] family = 32 -> Ok("sans serif")
      [] family = 48 -> Ok("modern")
      [] family = 64 -> Ok("script")
      [] family = 80 -> Ok("decorative")
      [] OTHER -> Err("KeyError")

\* the family _parse_win_props looks up: dfPitchAndFamily & 0xff00
FamilyOf(dfPitchAndFamily) == ((dfPitchAndFamily \div 256) % 256) * 256

_DFF_COLORFONT == 224
_DFF_ABC == 12

\* dfFlags & mask, as a truth value, for flags of one byte
HasFlags(dfFlags, mask) ==
    \E k \in 0..7 : (dfFlags \div Pow2(k)) % 2 = 1 /\ (mask \div Pow2(k)) % 2 = 1

\* _parse_win_props: the properties spacing, encoding, windows.dfCharSet and style
_parse_win_props(win_props) ==
    IF win_props.dfType % 2 = 1 THEN Err("ValueError")
    ELSE IF ~IsOk(_STYLE_MAP(FamilyOf(win_props.dfPitchAndFamily))) THEN Err("KeyError")
    ELSE IF win_props.dfVersion = V3 /\ HasFlags(win_props.dfFlags, _DFF_COLORFONT) THEN Err("ValueError")
    ELSE IF win_props.dfVersion = V3 /\ HasFlags(win_props.dfFlags, _DFF_ABC) THEN Err("ValueError")
    ELSE Ok([spacing |-> IF win_props.dfPixWidth # 0 THEN "character-cell" ELSE "proportional",
             encoding |-> IF win_props.dfCharSet \in CharsetCodes
                          THEN Given(CHARSET_MAP(win_props.dfCharSet)) ELSE NOT_SET(FALSE),
             windows_dfCharSet |-> IF win_props.dfCharSet \in CharsetCodes
                                   THEN NotDefined ELSE Given(win_props.dfCharSet),
             style |-> _STYLE_MAP(FamilyOf(win_props.dfPitchAndFamily)).val])

\* the dfCharSet that create_fnt writes for a font of these properties
create_fnt_charset(properties) ==
    CHARSET_REVERSE_MAP(IF properties.encoding.set THEN properties.encoding.val ELSE "")

FntPitchAndFamilies == {0, 1, 16, 17, 32, 33, 48, 49, 64, 80, 81, 96}

FntHeaders ==
    [dfVersion : {V2}, dfType : {0, 1}, dfPixWidth : {0, 8}, dfCharSet : 0..255,
     dfPitchAndFamily : FntPitchAndFamilies, dfFlags : {0}]
    \cup [dfVersion : {V3}, dfType : {0}, dfPixWidth : {0, 8}, dfCharSet : {0, 1, 3},
          dfPitchAndFamily : {16, 17}, dfFlags : {1, 2, 4, 32}]

InitFntProps ==
    /\ RawIdle /\ SprIdle /\ ShtIdle /\ LxIdle /\ WinIdle /\ FontIdle /\ BmIdle /\ MacIdle
    /\ CpiIdle /\ AmiIdle /\ DdIdle /\ CnIdle /\ CvIdle
    /\ \E h \in FntHeaders : fnt_file = Ok(h) /\ fnt_version = h.dfVersion
    /\ fnt_font = <<>>
    /\ fnt_out = Unset
    /\ fnt_pc = "header"

\* parse_fnt, as far as the properties go
ParseWinProps ==
    /\ fnt_pc = "header"
    /\ LET properties == _parse_win_props(fnt_file.val)
       IN  IF IsOk(properties)
           THEN fnt_font' = properties.val /\ fnt_pc' = "props"
           ELSE fnt_font' = <<>> /\ fnt_pc' = "failed"
    /\ UNCHANGED <<fnt_version, fnt_file, fnt_out>>
    /\ UNCHANGED notFnt

\* create_fnt, as far as dfCharSet goes
CreateCharset ==
    /\ fnt_pc = "props"
    /\ fnt_out' = Ok([dfCharSet |-> create_fnt_charset(fnt_font)])
    /\ fnt_pc' = "written"
    /\ UNCHANGED <<fnt_font, fnt_version, fnt_file>>
    /\ UNCHANGED notFnt

NextFntProps == ParseWinProps \/ CreateCharset

SpecFntProps == InitFntProps /\ [][NextFntProps]_vars

\* C18: for every dfCharSet byte c, parse_fnt followed by create_fnt writes
\* dfCharSet = c: table codes through their encoding name and back, 0x01 as 0x01,
\* and codes not in the table from the stored charset property.
C18_CharSetRoundTrip ==
    fnt_pc = "written" => fnt_out.val.dfCharSet = fnt_file.val.dfCharSet

\* dfCharSet 0x01 decodes to no encoding and is written back as 0xFF
C18_DefaultWrittenAsOem ==
    /\ fnt_pc = "written"
    /\ fnt_file.val.dfCharSet = 1
    /\ fnt_font.encoding = Given("")
    /\ fnt_out.val.dfCharSet = 255

\* the style name of a family value of the upper nibble
FntStyleName(family) ==
    CASE family = 16 -> "serif" [] family = 32 -> "sans serif" [] family = 48 -> "modern"
      [] family = 64 -> "script" [] family = 80 -> "decorative" [] OTHER -> ""

\* C19: parse_fnt derives the spacing from the low bit of dfPitchAndFamily and the
\* style from its upper nibble: serif, sans serif, modern, script, decorative for the
\* families 0x10 to 0x50, and the empty style only for family 0.
C19_StyleFromUpperNibble ==
    fnt_pc = "props" =>
        /\ fnt_font.style = FntStyleName((fnt_file.val.dfPitchAndFamily \div 16) * 16)
        /\ (fnt_font.style = "") => fnt_file.val.dfPitchAndFamily \div 16 = 0
        /\ (fnt_font.spacing = "proportional") = (fnt_file.val.dfPitchAndFamily % 2 = 1)

\* a header of family 0x10 (roman) decodes to the empty style
C19_RomanDecodesToNoStyle ==
    /\ fnt_pc = "props"
    /\ fnt_file.val.dfPitchAndFamily = 17
    /\ fnt_file.val.dfPixWidth = 0
    /\ fnt_font.style = ""

(***************************************************************************)
(* Mac FONT/NFNT resource (formats/mac/nfnt.py, _extract_nfnt)             *)
(***************************************************************************)

NFNT_HEADER_SIZE == 26
COMPRESSED_HEADER_SIZE == 10

\* big-endian uint16 and uint32 at a 0-based offset
NfntWord(data, at) == data[at + 1] * 256 + data[at + 2]
NfntDWord(data, at) == NfntWord(data, at) * 65536 + NfntWord(data, at + 2)

\* int16
NfntInt(data, at) ==
    IF NfntWord(data, at) >= 32768 THEN NfntWord(data, at) - 65536 ELSE NfntWord(data, at)

Reverse(seq) == [i \in 1..Len(seq) |-> seq[Len(seq) + 1 - i]]

\* the bits of one control byte from bit k on, least significant first: a set bit
\* yields a zero, a clear bit the next byte of the stream
RECURSIVE UncompressBits(_, _, _, _)
UncompressBits(byte, k, iter, output) ==
    IF k = 8 THEN [iter |-> iter, output |-> output]
    ELSE IF (byte \div Pow2(k)) % 2 = 1
    THEN UncompressBits(byte, k + 1, iter, Append(output, 0))
    ELSE IF iter = <<>> THEN [iter |-> iter, output |-> output]
    ELSE UncompressBits(byte, k + 1, Tail(iter), Append(output, Head(iter)))

RECURSIVE UncompressFrom(_, _)
UncompressFrom(iter, output) ==
    IF iter = <<>> THEN output
    ELSE LET step == UncompressBits(Head(iter), 0, Tail(iter), output)
         IN  UncompressFrom(step.iter, step.output)

_uncompress_nfnt(data, offset) ==
    IF offset + COMPRESSED_HEADER_SIZE > Len(data) THEN Err("ValueError")
    ELSE LET compressedLength == NfntDWord(data, offset + 2)
             payload == PySlice(data, offset + COMPRESSED_HEADER_SIZE,
                                offset + COMPRESSED_HEADER_SIZE + compressedLength)
             output == UncompressFrom(Reverse(payload), <<>>)
         IN  Ok(<<data[1], IF data[2] >= 128 THEN data[2] - 128 ELSE data[2] + 128>>
                \o Reverse(output))

\* the bitmap rows: the strike cut into rows of rowWords*16 bits, each row XORed
\* with the row above when the resource was compressed
RECURSIVE XorRows(_, _)
XorRows(rows, above) ==
    IF rows = <<>> THEN <<>>
    ELSE LET row == [k \in 1..(IF Len(Head(rows)) < Len(above) THEN Len(Head(rows)) ELSE Len(above))
                        |-> (Head(rows)[k] + above[k]) % 2]
         IN  <<row>> \o XorRows(Tail(rows), row)

StrikeRows(strike, rowWords, compressed) ==
    LET bits == bytes_to_bits(strike)
        rows == [r \in 1..ceildiv(Len(bits), rowWords * 16) |->
                    PySlice(bits, (r - 1) * rowWords * 16, r * rowWords * 16)]
    IN  IF compressed /\ rows # <<>> THEN <<rows[1]>> \o XorRows(Tail(rows), rows[1]) ELSE rows

\* the body of _extract_nfnt behind the decompression, for a header that fits
ExtractTables(data, offset, compressed) ==
    LET fontType == NfntWord(data, offset)
        firstChar == NfntWord(data, offset + 2)
        lastChar == NfntWord(data, offset + 4)
        widMax == NfntWord(data, offset + 6)
        nDescent == NfntInt(data, offset + 10)
        fRectWidth == NfntWord(data, offset + 12)
        fRectHeight == NfntWord(data, offset + 14)
        owTLoc == NfntWord(data, offset + 16)
        rowWords == NfntWord(data, offset + 24)
        depth == (fontType \div 4) % 4
        has_fctb == (fontType \div 128) % 2
        has_width_table == (fontType \div 2) % 2
        has_height_table == fontType % 2
        strike_offset == offset + NFNT_HEADER_SIZE
        loc_offset == strike_offset + fRectHeight * rowWords * 2
        n_chars == lastChar - firstChar + 2
        wo_at == offset + 16 + owTLoc * 2
        width_offset == owTLoc * 2 + 2 * n_chars
        height_offset == width_offset + (IF has_width_table = 1 THEN 2 * n_chars ELSE 0)
        rows == StrikeRows(PySlice(data, strike_offset, loc_offset), rowWords, compressed)
        locs == [i \in 1..(n_chars + 1) |-> NfntWord(data, loc_offset + 2 * (i - 1))]
    IN  IF rowWords = 0 \/ widMax = 0 \/ fRectWidth = 0 \/ fRectHeight = 0
        THEN Ok([glyphs |-> <<>>])
        ELSE IF depth # 0 \/ has_fctb # 0 THEN Err("FileFormatError")
        ELSE IF n_chars < 0 \/ loc_offset + 2 * (n_chars + 1) > Len(data) THEN Err("ValueError")
        \* a positive nDescent is the high word of the table offset: beyond the data
        ELSE IF nDescent > 0 \/ wo_at + 2 * n_chars > Len(data) THEN Err("ValueError")
        ELSE IF has_width_table = 1 /\ width_offset + 2 * n_chars > Len(data)
        THEN Err("ValueError")
        ELSE IF has_height_table = 1 /\ height_offset + 2 * n_chars > Len(data)
        THEN Err("ValueError")
        ELSE Ok([glyphs |->
                    [i \in 1..n_chars |->
                        [rows |-> [r \in 1..Len(rows) |-> PySlice(rows[r], locs[i], locs[i + 1])],
                         wo_offset |-> data[wo_at + 2 * (i - 1) + 1],
                         wo_width |-> data[wo_at + 2 * (i - 1) + 2]]]])

\* _extract_nfnt(data, offset) with endian='big', owt_loc_high=0, font_type=None
_extract_nfnt(data, offset) ==
    IF offset + 2 > Len(data) THEN Err("IndexError")
    ELSE LET compressed == data[offset + 2] >= 128
             plain == IF compressed THEN _uncompress_nfnt(data, offset) ELSE Ok(data)
             at == IF compressed THEN 0 ELSE offset
         IN  IF ~IsOk(plain) THEN plain
             ELSE IF at + NFNT_HEADER_SIZE > Len(plain.val) THEN Err("ValueError")
             ELSE ExtractTables(plain.val, at, compressed)

MaxNfntWidth == 2

\* FONT/NFNT resources of two glyphs (codepoint 65 and the missing symbol) in a strike
\* of one row
NfntFields ==
    [fontType : {36864, 36867, 36868, 36992, 36996}, widMax : {0, 8}, rowWords : {0, 1},
     strike : {<<0, 0>>, <<128, 0>>, <<192, 0>>}, width : 1..MaxNfntWidth]

NfntBody(f) ==
    WordLE(0) \o <<0, 65, 0, 65>> \o <<0, f.widMax>> \o <<0, 0, 0, 0>> \o <<0, 8, 0, 1>>
    \o <<0, 8 + f.rowWords>> \o <<0, 1, 0, 0, 0, 0>> \o <<0, f.rowWords>>
    \o (IF f.rowWords = 1 THEN f.strike ELSE <<>>)
    \o <<0, 0, 0, f.width, 0, f.width + 1>>
    \o <<0, f.width, 0, 1>>

NfntPlain(f) == <<f.fontType \div 256, f.fontType % 256>> \o SubSeq(NfntBody(f), 3, Len(NfntBody(f)))

\* the compressed form of a resource: every byte a literal, eight to a control byte
RECURSIVE NfntLiterals(_)
NfntLiterals(bytes) ==
    IF bytes = <<>> THEN <<>>
    ELSE <<0>> \o PySlice(bytes, 0, 8) \o NfntLiterals(PySlice(bytes, 8, Len(bytes)))

NfntPacked(f) ==
    LET body == SubSeq(NfntBody(f), 3, Len(NfntBody(f)))
        payload == Reverse(NfntLiterals(Reverse(body)))
    IN  <<f.fontType \div 256, f.fontType % 256>> \o <<0, 0, 0, Len(payload)>> \o <<0, 0, 0, Len(body)>>
        \o payload

NfntInputs ==
    {[fields |-> f, packed |-> FALSE, offset |-> o, data |-> [k \in 1..o |-> 0] \o NfntPlain(f)]
        : f \in NfntFields, o \in {0, 2}}
    \cup {[fields |-> f, packed |-> TRUE, offset |-> 0, data |-> NfntPacked(f)]
            : f \in {g \in NfntFields : (g.fontType \div 128) % 2 = 1}}

InitNfnt ==
    /\ FntIdle /\ RawIdle /\ SprIdle /\ ShtIdle /\ LxIdle /\ WinIdle /\ FontIdle /\ BmIdle
    /\ CpiIdle /\ AmiIdle /\ DdIdle /\ CnIdle /\ CvIdle
    /\ mac_in \in NfntInputs
    /\ mac_out = Unset
    /\ mac_pc = "extract"

ExtractNfnt ==
    /\ mac_pc = "extract"
    /\ mac_out' = _extract_nfnt(mac_in.data, mac_in.offset)
    /\ mac_pc' = "done"
    /\ UNCHANGED mac_in
    /\ UNCHANGED notMac

SpecNfnt == InitNfnt /\ [][ExtractNfnt]_vars

CPI_HEADER_SIZE == 23
FONT_INFO_HEADER_SIZE == 2
CODEPAGE_ENTRY_HEADER_SIZE == 28
CODEPAGE_INFO_HEADER_SIZE == 6
SCREEN_FONT_HEADER_SIZE == 6

_DT_SCREEN == 1
_DT_PRINTER == 2
_CP_FONT == 1

\* little-endian fields of a friendlystruct at a 0-based offset
CpiShort(data, at) == data[at + 1] + 256 * data[at + 2]
CpiLong(data, at) == CpiShort(data, at) + 65536 * CpiShort(data, at + 2)

\* parse_aligned(data, width, height, num_chars, offset): num_chars cells of height
\* rows, every row on whole bytes
parse_aligned(data, width, height, num_chars, offset) ==
    LET size == height * ceildiv(width, 8)
    IN  [i \in 1..num_chars |->
            GlyphFromBytes(PySlice(data, offset + (i - 1) * size, offset + i * size),
                           width, i - 1)]

\* the loop over the fonts of a screen codepage: props and cells are overwritten by
\* every font, the font header offset moves behind the bitmaps
RECURSIVE ParseScreenFonts(_, _, _, _, _)
ParseScreenFonts(data, fh_offset, left, codepage, last) ==
    IF left = 0 THEN last
    ELSE IF fh_offset + SCREEN_FONT_HEADER_SIZE > Len(data) THEN Err("ValueError")
    ELSE LET height == data[fh_offset + 1]
             width == data[fh_offset + 2]
             num_chars == CpiShort(data, fh_offset + 4)
             bm_offset == fh_offset + SCREEN_FONT_HEADER_SIZE
             cells == parse_aligned(data, width, height, num_chars, bm_offset)
             props == [encoding |-> Given(codepage), size |-> <<width, height>>]
         IN  ParseScreenFonts(data, bm_offset + num_chars * height * ceildiv(width, 8),
                              left - 1, codepage, Ok([glyphs |-> cells, props |-> props]))

\* _parse_cp: Ok([font, next_cpeh_offset]) or the exception
_parse_cp(data, cpeh_offset, nt) ==
    IF cpeh_offset + CODEPAGE_ENTRY_HEADER_SIZE > Len(data) THEN Err("ValueError")
    ELSE LET shift == IF nt THEN cpeh_offset ELSE 0
             next_cpeh_offset == CpiLong(data, cpeh_offset + 2) + shift
             device_type == CpiShort(data, cpeh_offset + 6)
             codepage == CpiShort(data, cpeh_offset + 16)
             cpih_offset == CpiLong(data, cpeh_offset + 24) + shift
             fh_offset == cpih_offset + CODEPAGE_INFO_HEADER_SIZE
         IN  IF fh_offset > Len(data) THEN Err("ValueError")
             ELSE LET num_fonts == CpiShort(data, cpih_offset + 2)
                      font == IF device_type = _DT_PRINTER
                              THEN Ok([glyphs |-> <<>>,
                                       props |-> [encoding |-> NotDefined, size |-> <<>>]])
                              ELSE ParseScreenFonts(data, fh_offset, num_fonts, codepage,
                                                    Err("UnboundLocalError"))
                  IN  IF IsOk(font)
                      THEN Ok([font |-> font.val, next_cpeh_offset |-> next_cpeh_offset])
                      ELSE font

RECURSIVE ParseCodepages(_, _, _, _, _)
ParseCodepages(data, cpeh_offset, left, nt, fonts) ==
    IF left = 0 THEN Ok(fonts)
    ELSE LET cp == _parse_cp(data, cpeh_offset, nt)
         IN  IF IsOk(cp)
             THEN ParseCodepages(data, cp.val.next_cpeh_offset, left - 1, nt,
                                 Append(fonts, cp.val.font))
             ELSE cp

_parse_font(data, nt) ==
    LET fih_offset == CpiLong(data, 19)
    IN  IF fih_offset + FONT_INFO_HEADER_SIZE > Len(data) THEN Err("ValueError")
        ELSE ParseCodepages(data, fih_offset + FONT_INFO_HEADER_SIZE,
                            CpiShort(data, fih_offset), nt, <<>>)

CpiIdFont == <<70, 79, 78, 84, 32, 32, 32>>
CpiIdFontNT == <<70, 79, 78, 84, 46, 78, 84>>

_parse_cpi(data) ==
    IF Len(data) < CPI_HEADER_SIZE THEN Err("ValueError")
    ELSE IF data[1] = 255 /\ SubSeq(data, 2, 8) = CpiIdFont THEN _parse_font(data, FALSE)
    ELSE IF data[1] = 255 /\ SubSeq(data, 2, 8) = CpiIdFontNT THEN _parse_font(data, TRUE)
    ELSE Err("ValueError")

MaxCpiCodepages == 2
MaxCpiFonts == 2
MaxCpiChars == 2

CpiFonts == [width : {8}, height : {1, 2}, num_chars : 1..MaxCpiChars]
CpiFontLists == UNION {[1..n -> CpiFonts] : n \in 0..MaxCpiFonts}
CpiCodepages ==
    [device_type : {_DT_SCREEN}, codepage : {437, 850}, fonts : CpiFontLists]
    \cup [device_type : {_DT_PRINTER}, codepage : {437}, fonts : {<<>>}]
CpiCodepageLists == UNION {[1..n -> CpiCodepages] : n \in 1..MaxCpiCodepages}

\* the bytes of one font: the screen font header and the bitmaps, which count up
CpiFontBytes(f) ==
    <<f.height, f.width, 0, 0>> \o WordLE(f.num_chars)
    \o [k \in 1..(f.num_chars * f.height * ceildiv(f.width, 8)) |-> k]

CpiFontsBytes(fonts) == Concat([i \in 1..Len(fonts) |-> CpiFontBytes(fonts[i])])

CpiCodepageSize(cp) ==
    CODEPAGE_ENTRY_HEADER_SIZE + CODEPAGE_INFO_HEADER_SIZE + Len(CpiFontsBytes(cp.fonts))

\* one codepage laid out at offset `at`: entry header, info header, fonts; printers
\* declare one font
CpiCodepageBytes(cp, at, last, nt) ==
    LET base == IF nt THEN 0 ELSE at
        next == IF last THEN 0 ELSE base + CpiCodepageSize(cp)
    IN  WordLE(CODEPAGE_ENTRY_HEADER_SIZE) \o DWordLE(next) \o WordLE(cp.device_type)
        \o <<69, 71, 65, 32, 32, 32, 32, 32>> \o WordLE(cp.codepage) \o <<0, 0, 0, 0, 0, 0>>
        \o DWordLE(base + CODEPAGE_ENTRY_HEADER_SIZE)
        \o WordLE(_CP_FONT)
        \o WordLE(IF cp.device_type = _DT_PRINTER THEN 1 ELSE Len(cp.fonts))
        \o WordLE(Len(CpiFontsBytes(cp.fonts)))
        \o CpiFontsBytes(cp.fonts)

RECURSIVE CpiCodepagesBytes(_, _, _)
CpiCodepagesBytes(cps, at, nt) ==
    IF cps = <<>> THEN <<>>
    ELSE CpiCodepageBytes(Head(cps), at, Len(cps) = 1, nt)
         \o CpiCodepagesBytes(Tail(cps), at + CpiCodepageSize(Head(cps)), nt)

CpiFile(cps, nt) ==
    <<255>> \o (IF nt THEN CpiIdFontNT ELSE CpiIdFont) \o <<0, 0, 0, 0, 0, 0, 0, 0>>
    \o WordLE(1) \o <<1>> \o DWordLE(CPI_HEADER_SIZE)
    \o WordLE(Len(cps))
    \o CpiCodepagesBytes(cps, CPI_HEADER_SIZE + FONT_INFO_HEADER_SIZE, nt)

InitCpi ==
    /\ FntIdle /\ RawIdle /\ SprIdle /\ ShtIdle /\ LxIdle /\ WinIdle /\ FontIdle /\ BmIdle
    /\ MacIdle /\ AmiIdle /\ DdIdle /\ CnIdle /\ CvIdle
    /\ \E cps \in CpiCodepageLists, nt \in BOOLEAN :
            cpi_in = [codepages |-> cps, nt |-> nt, data |-> CpiFile(cps, nt)]
    /\ cpi_out = Unset
    /\ cpi_pc = "parse"

ParseCpi ==
    /\ cpi_pc = "parse"
    /\ cpi_out' = _parse_cpi(cpi_in.data)
    /\ cpi_pc' = "done"
    /\ UNCHANGED cpi_in
    /\ UNCHANGED notCpi

SpecCpi == InitCpi /\ [][ParseCpi]_vars

\* the fonts of the screen codepages, in file order
RECURSIVE CpiScreenFonts(_)
CpiScreenFonts(cps) ==
    IF cps = <<>> THEN <<>>
    ELSE (IF Head(cps).device_type = _DT_SCREEN
          THEN [i \in 1..Len(Head(cps).fonts) |->
                    [font |-> Head(cps).fonts[i], codepage |-> Head(cps).codepage]]
          ELSE <<>>)
         \o CpiScreenFonts(Tail(cps))

CpiFontIs(font, expected) ==
    /\ Len(font.glyphs) = expected.font.num_chars
    /\ \A i \in 1..Len(font.glyphs) :
            /\ font.glyphs[i].width = expected.font.width
            /\ font.glyphs[i].height = expected.font.height
    /\ font.props.encoding = Given(expected.codepage)

\* C21: for a CPI file whose screen codepages each list at least one font, _parse_cpi
\* returns one Font per font of every screen codepage, in codepage order, each with
\* num_chars glyphs of the font's width x height and the encoding cp<codepage>; the
\* number of fonts returned is the sum of num_fonts over the screen codepages.
C21_FontPerScreenFont ==
    (/\ cpi_pc = "done"
     /\ \A i \in 1..Len(cpi_in.codepages) :
            cpi_in.codepages[i].device_type = _DT_SCREEN => cpi_in.codepages[i].fonts # <<>>)
        => /\ IsOk(cpi_out)
           /\ Len(cpi_out.val) = Len(CpiScreenFonts(cpi_in.codepages))
           /\ \A k \in 1..Len(cpi_out.val) :
                CpiFontIs(cpi_out.val[k], CpiScreenFonts(cpi_in.codepages)[k])

\* a screen codepage of two fonts yields one Font, the second one
C21_LastFontOnly ==
    /\ cpi_pc = "done"
    /\ Len(cpi_in.codepages) = 1
    /\ cpi_in.codepages[1].device_type = _DT_SCREEN
    /\ Len(cpi_in.codepages[1].fonts) = 2
    /\ cpi_in.codepages[1].fonts[1].height = 1
    /\ cpi_in.codepages[1].fonts[2].height = 2
    /\ IsOk(cpi_out)
    /\ Len(cpi_out.val) = 1
    /\ cpi_out.val[1].glyphs[1].height = 2

\* a printer codepage yields a Font without glyphs
C21_PrinterFontReturned ==
    /\ cpi_pc = "done"
    /\ Len(cpi_in.codepages) = 2
    /\ cpi_in.codepages[1].device_type = _DT_PRINTER
    /\ Len(cpi_in.codepages[2].fonts) = 1
    /\ IsOk(cpi_out)
    /\ Len(cpi_out.val) = 2
    /\ cpi_out.val[1].glyphs = <<>>

(***************************************************************************)
(* Amiga font strike (codecs/amiga.py, _read_strike)                        *)
(***************************************************************************)

AMI_LOC_SIZE == 4
AMI_SPC_SIZE == 2

Abs(n) == IF n < 0 THEN -n ELSE n

\* (False,) * n: nothing when n is negative
Blanks(n) == [k \in 1..n |-> 0]

\* the spacing and kerning tables: big-endian int16 entries, all replaced by the
\* fallback as soon as one exceeds twice the nominal width
AmiTable(data, pos, nchars, xsize, fallback) ==
    LET table == [i \in 1..nchars |-> NfntInt(data, pos + (i - 1) * AMI_SPC_SIZE)]
    IN  IF \E i \in 1..nchars : Abs(table[i]) > xsize * 2
        THEN [i \in 1..nchars |-> fallback]
        ELSE table

\* _read_strike: Ok([glyphs, offset_x]); pos_charkern is Given(pos) or NotDefined
_read_strike(data, xsize, ysize, proportional, modulo, lochar, hichar, pos_chardata, pos_charloc, pos_charspace, pos_charkern) ==
    LET rows == [r \in 1..ysize |->
                    bytes_to_bits(PySlice(data, pos_chardata + (r - 1) * modulo,
                                          pos_chardata + r * modulo))]
        nchars == hichar - lochar + 1 + 1
    IN  IF \/ pos_charloc + nchars * AMI_LOC_SIZE > Len(data)
           \/ proportional /\ pos_charspace + nchars * AMI_SPC_SIZE > Len(data)
           \/ pos_charkern.set /\ pos_charkern.val + nchars * AMI_SPC_SIZE > Len(data)
        THEN Err("ValueError")
        ELSE
        LET locs == [i \in 1..nchars |->
                        [offset |-> NfntWord(data, pos_charloc + (i - 1) * AMI_LOC_SIZE),
                         width |-> NfntWord(data, pos_charloc + (i - 1) * AMI_LOC_SIZE + 2)]]
            font == [i \in 1..nchars |->
                        [r \in 1..ysize |->
                            PySlice(rows[r], locs[i].offset, locs[i].offset + locs[i].width)]]
            spacing_ == IF proportional
                       THEN AmiTable(data, pos_charspace, nchars, xsize, xsize)
                       ELSE [i \in 1..nchars |-> xsize]
            kerning == IF pos_charkern.set
                       THEN AmiTable(data, pos_charkern.val, nchars, xsize, 0)
                       ELSE [i \in 1..nchars |-> 0]
            offset_x == SetMin(Range(kerning))
            glyphs == [i \in 1..nchars |->
                        [rows |-> [r \in 1..ysize |->
                                    Blanks(kerning[i] - offset_x) \o font[i][r]
                                    \o Blanks(spacing_[i] - (kerning[i] - offset_x)
                                              - Len(font[i][r]))],
                         codepoint |-> IF i = nchars THEN NotDefined
                                       ELSE Given(i - 1 + lochar),
                         tags |-> IF i = nchars THEN <<"default">> ELSE <<>>]]
        IN  Ok([glyphs |-> glyphs, offset_x |-> offset_x])

MaxAmiChars == 1
AmiXSize == 2

AmiChars == [width : {1, 3}, space : {-1, 2, 3, 5}, kern : {-1, 0, 1, 5}]
AmiCharLists == UNION {[1..(n + 1) -> AmiChars] : n \in 1..MaxAmiChars}

\* big-endian int16
AmiInt(v) == <<((v + 65536) % 65536) \div 256, (v + 65536) % 256>>

\* one row of strike, the location table, the spacing table and the kerning table
AmiData(strike, chars) ==
    <<strike>>
    \o Concat([i \in 1..Len(chars) |-> <<0, 0, 0, chars[i].width>>])
    \o Concat([i \in 1..Len(chars) |-> AmiInt(chars[i].space)])
    \o Concat([i \in 1..Len(chars) |-> AmiInt(chars[i].kern)])

InitAmi ==
    /\ FntIdle /\ RawIdle /\ SprIdle /\ ShtIdle /\ LxIdle /\ WinIdle /\ FontIdle /\ BmIdle
    /\ MacIdle /\ CpiIdle /\ DdIdle /\ CnIdle /\ CvIdle
    /\ \E chars \in AmiCharLists, proportional \in BOOLEAN, kerned \in BOOLEAN,
          strike \in {224, 160} :
            ami_in = [chars |-> chars, proportional |-> proportional, kerned |-> kerned,
                      lochar |-> 65, hichar |-> 65 + Len(chars) - 2,
                      data |-> AmiData(strike, chars)]
    /\ ami_out = Unset
    /\ ami_pc = "strike"

ReadStrike ==
    /\ ami_pc = "strike"
    /\ LET n == Len(ami_in.chars)
       IN  ami_out' = _read_strike(ami_in.data, AmiXSize, 1, ami_in.proportional, 1,
                                   ami_in.lochar, ami_in.hichar, 0, 1,
                                   1 + n * AMI_LOC_SIZE,
                                   IF ami_in.kerned
                                   THEN Given(1 + n * AMI_LOC_SIZE + n * AMI_SPC_SIZE)
                                   ELSE NotDefined)
    /\ ami_pc' = "done"
    /\ UNCHANGED ami_in
    /\ UNCHANGED notAmi

SpecAmi == InitAmi /\ [][ReadStrike]_vars

AmiAdvance(i) == IF ami_in.proportional THEN ami_in.chars[i].space ELSE AmiXSize
AmiKern(i) == IF ami_in.kerned THEN ami_in.chars[i].kern ELSE 0
AmiMinKern == SetMin({AmiKern(i) : i \in 1..Len(ami_in.chars)})

\* C22: _read_strike pads glyph i on the left with kern_i - min_j(kern_j) blank columns,
\* reports offset_x = min_j(kern_j), gives each glyph a raster as wide as its advance
\* (its space-table entry when proportional, XSize otherwise), and returns
\* HiChar-LoChar+2 glyphs, the last one tagged default and without a codepoint.
C22_RasterWidthIsAdvance ==
    ami_pc = "done" =>
        /\ IsOk(ami_out)
        /\ Len(ami_out.val.glyphs) = ami_in.hichar - ami_in.lochar + 2
        /\ ami_out.val.offset_x = AmiMinKern
        /\ \A i \in 1..Len(ami_out.val.glyphs) :
            /\ Len(ami_out.val.glyphs[i].rows[1]) = AmiAdvance(i)
            /\ \A k \in 1..(AmiKern(i) - AmiMinKern) :
                    /\ k <= Len(ami_out.val.glyphs[i].rows[1])
                    /\ ami_out.val.glyphs[i].rows[1][k] = 0
        /\ ami_out.val.glyphs[Len(ami_out.val.glyphs)].tags = <<"default">>
        /\ ~ami_out.val.glyphs[Len(ami_out.val.glyphs)].codepoint.set

\* a glyph of three columns in a font of advance 2 keeps its three columns
C22_RasterWiderThanAdvance ==
    /\ ami_pc = "done"
    /\ ~ami_in.proportional /\ ~ami_in.kerned
    /\ Len(ami_in.chars) = 2
    /\ ami_in.chars[1].width = 3
    /\ IsOk(ami_out)
    /\ ami_out.val.glyphs[1].rows[1] = <<1, 1, 1>>
    /\ ami_out.val.glyphs[1].codepoint = Given(65)

(***************************************************************************)
(* Daisy-Dot III (formats/daisydot.py, _parse_daisy3)                       *)
(***************************************************************************)

_DD3_MAGIC == <<51, 155>>
DD3_FINAL_SIZE == 3
DD_STRIDE == 16

DdKept(c) == c \notin {96, 123}

\* _DD_RANGE: codepoints 32..124 without 96 and 123
_DD_RANGE == SelectSeq([i \in 1..93 |-> 31 + i], DdKept)

\* the bits of two passes taken in turns, as long as both last
Interleave(pass0, pass1) ==
    LET n == IF Len(pass0) < Len(pass1) THEN Len(pass0) ELSE Len(pass1)
    IN  [k \in 1..(2 * n) |-> IF k % 2 = 1 THEN pass0[(k + 1) \div 2] ELSE pass1[k \div 2]]

\* Raster.from_vector(bits, stride=16).transpose().as_matrix(): the bits in rows of 16,
\* the rows turned into columns
PassMatrix(bits) ==
    LET columns == Len(bits) \div DD_STRIDE
    IN  IF columns = 0 THEN <<>>
        ELSE [r \in 1..DD_STRIDE |-> [c \in 1..columns |-> bits[(c - 1) * DD_STRIDE + r]]]

DdPasses(data, ofs, width) ==
    PassMatrix(Interleave(bytes_to_bits(PySlice(data, ofs, ofs + width)),
                          bytes_to_bits(PySlice(data, ofs + width, ofs + 2 * width))))

\* Glyph(matrix, codepoint): the width is that of the first row
DdGlyph(matrix, codepoint) ==
    Glyph(matrix, IF matrix = <<>> THEN 0 ELSE Len(matrix[1]), codepoint)

\* Glyph.expand(bottom=n): n blank rows below
DdExpand(g, n) ==
    Glyph(g.rows \o [r \in 1..n |-> [c \in 1..g.width |-> 0]], g.width, g.codepoint)

\* one turn of the loop over _DD_RANGE[1:]: the glyph of codepoint cp read at ofs, and
\* the offset behind it
ParseDaisy3Glyph(data, ofs, cp) ==
    IF ofs >= Len(data) THEN Err("IndexError")
    ELSE LET double == data[ofs + 1] \div 64 # 0
             width == data[ofs + 1] % 64
             first == DdPasses(data, ofs + 1, width)
             matrix == IF double THEN first \o DdPasses(data, ofs + 1 + 2 * width, width)
                       ELSE first
         IN  Ok([ofs |-> ofs + 1 + (IF double THEN 4 ELSE 2) * width,
                 glyphs |-> <<DdGlyph(matrix, cp)>>])

\* the turns lo..hi of the loop over _DD_RANGE[1:], started at ofs: the turns of the
\* first half, then those of the second half from where the first half ended
RECURSIVE ParseDaisy3From(_, _, _, _)
ParseDaisy3From(data, ofs, lo, hi) ==
    IF lo > hi THEN Ok([ofs |-> ofs, glyphs |-> <<>>])
    ELSE IF lo = hi THEN ParseDaisy3Glyph(data, ofs, _DD_RANGE[lo + 1])
    ELSE LET mid == (lo + hi) \div 2
             head == ParseDaisy3From(data, ofs, lo, mid)
         IN  IF ~IsOk(head) THEN head
             ELSE LET rest == ParseDaisy3From(data, head.val.ofs, mid + 1, hi)
                  IN  IF ~IsOk(rest) THEN rest
                      ELSE Ok([ofs |-> rest.val.ofs,
                               glyphs |-> head.val.glyphs \o rest.val.glyphs])

_parse_daisy3(data) ==
    LET read == ParseDaisy3From(data, Len(_DD3_MAGIC), 1, Len(_DD_RANGE) - 1)
    IN  IF ~IsOk(read) THEN read
        ELSE IF read.val.ofs + DD3_FINAL_SIZE > Len(data) THEN Err("ValueError")
        ELSE LET dd3_height == data[read.val.ofs + 1]
                 underline == data[read.val.ofs + 2]
                 space_width == data[read.val.ofs + 3]
                 glyphs == read.val.glyphs
                 height == SetMax({glyphs[k].height : k \in 1..Len(glyphs)})
                 pixel_size_ == dd3_height + 1
                 descent_ == dd3_height - underline + 2
             IN  Ok([glyphs |-> <<Glyph([r \in 1..height |-> [c \in 1..space_width |-> 0]],
                                        space_width, 32)>>
                                \o [k \in 1..Len(glyphs) |->
                                        DdExpand(glyphs[k], height - glyphs[k].height)],
                     props |-> [shift_up |-> pixel_size_ - height - descent_,
                                ascent |-> pixel_size_ - descent_,
                                descent |-> descent_,
                                line_height |-> pixel_size_ + 4]])

MaxDdVaried == 2
MaxDdWidth == 2

\* a glyph record: header byte and the data bytes of its passes
DdRecords ==
    {[header |-> d * 64 + w, fill |-> f] : d \in {0, 1, 3}, w \in 1..MaxDdWidth, f \in {129, 255}}

DdRecordBytes(rec) ==
    <<rec.header>>
    \o [k \in 1..((IF rec.header >= 64 THEN 4 ELSE 2) * (rec.header % 64)) |-> rec.fill]

\* a file: the magic, the varied records, plain records of width 1 for the other
\* codepoints, the final header; `cut` bytes are missing at the end
DdFile(recs, final, cut) ==
    LET whole == _DD3_MAGIC \o Concat([k \in 1..Len(recs) |-> DdRecordBytes(recs[k])])
                 \o Concat([k \in 1..(Len(_DD_RANGE) - 1 - Len(recs)) |-> <<1, 16, 8>>])
                 \o <<final.height, final.underline, final.space_width>>
    IN  SubSeq(whole, 1, Len(whole) - cut)

InitDd ==
    /\ FntIdle /\ RawIdle /\ SprIdle /\ ShtIdle /\ LxIdle /\ WinIdle /\ FontIdle /\ BmIdle
    /\ MacIdle /\ CpiIdle /\ AmiIdle /\ CnIdle /\ CvIdle
    /\ \E recs \in [1..MaxDdVaried -> DdRecords],
          final \in [height : {10, 15, 31}, underline : {9}, space_width : {3, 5}],
          cut \in {0, 3, 7} :
            dd_in = [records |-> recs, final |-> final, cut |-> cut,
                     data |-> DdFile(recs, final, cut)]
    /\ dd_out = Unset
    /\ dd_pc = "parse"

ParseDaisy3 ==
    /\ dd_pc = "parse"
    /\ dd_out' = _parse_daisy3(dd_in.data)
    /\ dd_pc' = "done"
    /\ UNCHANGED dd_in
    /\ UNCHANGED notDd

SpecDd == InitDd /\ [][ParseDaisy3]_vars

\* C23: in a Daisy-Dot III file a glyph record with header byte b has width b mod 64 and
\* takes 2*width data bytes, 4*width when b >= 64, so that the records behind it are read
\* at their place; every decoded glyph is as high as the final header's height + 1; a
\* space glyph of width space_width is put at codepoint 0x20.
C23_GlyphHeightFromFinalHeader ==
    (dd_pc = "done" /\ dd_in.cut = 0) =>
        /\ IsOk(dd_out)
        /\ Len(dd_out.val.glyphs) = Len(_DD_RANGE)
        /\ dd_out.val.glyphs[1].codepoint = 32
        /\ dd_out.val.glyphs[1].width = dd_in.final.space_width
        /\ \A k \in 1..Len(dd_in.records) :
                dd_out.val.glyphs[k + 1].width = dd_in.records[k].header % 64
        /\ \A k \in (Len(dd_in.records) + 2)..Len(_DD_RANGE) :
                dd_out.val.glyphs[k].rows[7] = <<1>>
        /\ \A k \in 1..Len(dd_out.val.glyphs) :
                dd_out.val.glyphs[k].height = dd_in.final.height + 1

\* the record 0x02 with four data bytes gives a glyph of width 2 for codepoint 0x21; it
\* has 16 rows although the final header says height 10
C23_GlyphSixteenRows ==
    /\ dd_pc = "done"
    /\ dd_in.cut = 0
    /\ dd_in.records[1].header = 2
    /\ dd_in.records[2].header = 1
    /\ dd_in.final.height = 10
    /\ IsOk(dd_out)
    /\ dd_out.val.glyphs[2].codepoint = 33
    /\ dd_out.val.glyphs[2].width = 2
    /\ dd_out.val.glyphs[2].height = 16
    /\ dd_out.val.glyphs[1].height = 16

(***************************************************************************)
(* BMFont reader on a container (bmfont.py, _read_bmfont and _extract):     *)
(* the streams it opens and closes                                          *)
(***************************************************************************)

MaxCnPages == 2

CnPageFiles == {"page0.png", "page1.png"}

\* descriptors: binary ones (well formed, without chars block, without blocks) and a
\* text one, which does not start with BMF
CnDescriptors ==
    {BmDescriptor(<<[typeId |-> _BLK_INFO, blkSize |-> 15], [typeId |-> _BLK_COMMON, blkSize |-> 15],
                    [typeId |-> _BLK_PAGES, blkSize |-> 2], [typeId |-> _BLK_CHARS, blkSize |-> 20]>>),
     BmDescriptor(<<[typeId |-> _BLK_INFO, blkSize |-> 15], [typeId |-> _BLK_PAGES, blkSize |-> 2]>>),
     BmDescriptor(<<>>),
     <<105, 110, 102, 111>>}

\* a stream of the container: the member and the how-manieth open it is
CnStream(member, nr) == [member |-> member, nr |-> nr]

CnAt(step, page) == [step |-> step, page |-> page]

InitCn ==
    /\ FntIdle /\ RawIdle /\ SprIdle /\ ShtIdle /\ LxIdle /\ WinIdle /\ FontIdle /\ BmIdle
    /\ MacIdle /\ CpiIdle /\ AmiIdle /\ DdIdle /\ CvIdle
    /\ \E data \in CnDescriptors,
          pages \in UNION {[1..n -> CnPageFiles] : n \in 0..MaxCnPages},
          members \in SUBSET CnPageFiles,
          page \in 0..(MaxCnPages - 1) :
            cn_in = [name |-> "font.fnt", data |-> data, pages |-> pages,
                     members |-> members, char_page |-> page]
    /\ cn_open = {}
    /\ cn_out = Unset
    /\ cn_pc = CnAt("start", 0)

\* with container.open(name, 'rb') as fnt:
CnOpenMagic ==
    /\ cn_pc.step = "start"
    /\ cn_open' = cn_open \cup {CnStream(cn_in.name, 1)}
    /\ cn_pc' = CnAt("magic", 0)
    /\ UNCHANGED <<cn_in, cn_out>>
    /\ UNCHANGED notCn

\* magic = fnt.read(3), and the end of the with block
CnReadMagic ==
    /\ cn_pc.step = "magic"
    /\ cn_open' = cn_open \ {CnStream(cn_in.name, 1)}
    /\ cn_pc' = CnAt("opened", 0)
    /\ UNCHANGED <<cn_in, cn_out>>
    /\ UNCHANGED notCn

\* the second with container.open(name, ...) as fnt, for either kind of descriptor
CnOpenDescriptor ==
    /\ cn_pc.step = "opened"
    /\ cn_open' = cn_open \cup {CnStream(cn_in.name, 2)}
    /\ cn_pc' = CnAt("descriptor", 0)
    /\ UNCHANGED <<cn_in, cn_out>>
    /\ UNCHANGED notCn

\* the descriptor is parsed inside the with block; the block closes the stream whether
\* the parser returns or raises
CnParse ==
    /\ cn_pc.step = "descriptor"
    /\ LET binary == PySlice(cn_in.data, 0, 3) = <<66, 77, 70>>
           fontinfo == IF binary THEN _parse_binary(cn_in.data) ELSE Ok(<<>>)
       IN  /\ cn_open' = cn_open \ {CnStream(cn_in.name, 2)}
           /\ IF IsOk(fontinfo)
              THEN cn_pc' = CnAt("pages", 0) /\ cn_out' = cn_out
              ELSE cn_pc' = CnAt("raised", 0) /\ cn_out' = fontinfo
    /\ UNCHANGED cn_in
    /\ UNCHANGED notCn

\* _extract, the dict of sheets: Image.open(container.open(file, 'rb')) for the next page
CnOpenPage ==
    /\ cn_pc.step = "pages"
    /\ cn_pc.page < Len(cn_in.pages)
    /\ LET file == cn_in.pages[cn_pc.page + 1]
       IN  IF file \in cn_in.members
           THEN /\ cn_open' = cn_open \cup {CnStream(file, cn_pc.page)}
                /\ cn_pc' = CnAt("pages", cn_pc.page + 1)
                /\ cn_out' = cn_out
           ELSE /\ cn_open' = cn_open
                /\ cn_pc' = CnAt("raised", cn_pc.page)
                /\ cn_out' = Err("FileNotFoundError")
    /\ UNCHANGED cn_in
    /\ UNCHANGED notCn

\* sheets is replaced by the RGBA copies: nothing refers to the opened images and their
\* streams any more, and nothing closes them; whether the runtime finalises a stream
\* that is no longer referenced is left open
CnConvert ==
    /\ cn_pc.step = "pages"
    /\ cn_pc.page = Len(cn_in.pages)
    /\ \E finalised \in SUBSET {st \in cn_open : st.member \in CnPageFiles} :
            cn_open' = cn_open \ finalised
    /\ cn_pc' = CnAt("extract", cn_pc.page)
    /\ UNCHANGED <<cn_in, cn_out>>
    /\ UNCHANGED notCn

\* the rest of _extract: the chars are cropped from sheets[char.page]
CnExtract ==
    /\ cn_pc.step = "extract"
    /\ IF cn_in.char_page < Len(cn_in.pages)
       THEN cn_pc' = CnAt("done", cn_pc.page) /\ cn_out' = Ok(<<>>)
       ELSE cn_pc' = CnAt("raised", cn_pc.page) /\ cn_out' = Err("KeyError")
    /\ UNCHANGED <<cn_in, cn_open>>
    /\ UNCHANGED notCn

NextCn ==
    \/ CnOpenMagic
    \/ CnReadMagic
    \/ CnOpenDescriptor
    \/ CnParse
    \/ CnOpenPage
    \/ CnConvert
    \/ CnExtract

SpecCn == InitCn /\ [][NextCn]_vars

\* C24: every stream opened on the container during a BMFont decode, the descriptor's and
\* each spritesheet page's, is closed by the time _read_bmfont returns or raises.
C24_AllStreamsClosed ==
    cn_pc.step \in {"done", "raised"} => cn_open = {}

\* the second page is missing from the container: _read_bmfont raises with the stream of
\* the first page open
C24_PageStreamLeftOpen ==
    /\ cn_pc.step = "raised"
    /\ cn_out = Err("FileNotFoundError")
    /\ cn_in.pages = <<"page0.png", "page1.png">>
    /\ cn_open = {CnStream("page0.png", 0)}

\* the streams of the descriptor are closed whenever the reader has left the with blocks
C24_DescriptorStreamsScoped ==
    cn_pc.step \in {"start", "opened", "pages", "extract", "done", "raised"}
        => \A st \in cn_open : st.member # cn_in.name

C24_DescriptorClosedOnError ==
    /\ cn_pc.step = "raised"
    /\ cn_out = Err("KeyError")
    /\ cn_in.pages = <<>>
    /\ cn_open = {}

(***************************************************************************)
(* convert.py: the command loop                                             *)
(***************************************************************************)

MaxCvCommands == 3
MaxCvFonts == 2

CvCommands == {"", "load", "save", "to", "mirror", "crop"}

\* argrecord: the command and whether it came with arguments
argrecord(command, given) == [command |-> command, given |-> given]

\* monobit.load: a list of fonts; a font is known by the command that loaded it, its
\* place in the file and the operations applied to it
CvLoad(at, count) == [k \in 1..count |-> [file |-> at, nr |-> k, ops |-> <<>>]]

\* an operation of monobit.operations on one font
CvApply(command, font) == [font EXCEPT !.ops = Append(@, command)]

\* convert.py 75-84: the first command is made a load, a save is appended
CvPrepare(command_args) ==
    LET first == command_args[1]
        named == IF first.command = ""
                    /\ (first.given \/ Len(command_args) = 1
                        \/ command_args[2].command # "load")
                 THEN [command_args EXCEPT ![1].command = "load"]
                 ELSE command_args
    IN  IF named[Len(named)].command \notin {"to", "save"}
        THEN Append(named, argrecord("save", FALSE))
        ELSE named

CvAt(state, at) == [state |-> state, at |-> at]

InitCv ==
    /\ FntIdle /\ RawIdle /\ SprIdle /\ ShtIdle /\ LxIdle /\ WinIdle /\ FontIdle /\ BmIdle
    /\ MacIdle /\ CpiIdle /\ AmiIdle /\ DdIdle /\ CnIdle
    /\ \E n \in 1..MaxCvCommands, count \in 1..MaxCvFonts :
        \E commands \in [1..n -> CvCommands], given \in BOOLEAN :
            cv_args = [given |-> [k \in 1..n |-> argrecord(commands[k], given \/ k > 1)],
                       command_args |-> <<>>, count |-> count]
    /\ cv_fonts = [type |-> "list", items |-> <<>>]
    /\ cv_saved = <<>>
    /\ cv_pc = CvAt("start", 0)

\* lines 75-86
CvStart ==
    /\ cv_pc.state = "start"
    /\ cv_args' = [cv_args EXCEPT !.command_args = CvPrepare(cv_args.given)]
    /\ cv_fonts' = [type |-> "list", items |-> <<>>]
    /\ cv_pc' = CvAt("loop", 1)
    /\ UNCHANGED cv_saved
    /\ UNCHANGED notCv

\* one turn of the loop over command_args (lines 87-100); fonts += list raises when
\* fonts is the tuple an operation left behind
CvExecute ==
    /\ cv_pc.state = "loop"
    /\ LET at == cv_pc.at
           args == cv_args.command_args[at]
           next == IF at = Len(cv_args.command_args) THEN CvAt("done", at) ELSE CvAt("loop", at + 1)
       IN  CASE args.command = "" ->
                    /\ cv_pc' = next
                    /\ UNCHANGED <<cv_fonts, cv_saved>>
              [] args.command = "load" ->
                    IF cv_fonts.type = "list"
                    THEN /\ cv_fonts' = [cv_fonts EXCEPT
                                            !.items = @ \o CvLoad(at, cv_args.count)]
                         /\ cv_pc' = next
                         /\ UNCHANGED cv_saved
                    ELSE /\ cv_pc' = CvAt("TypeError", at)
                         /\ UNCHANGED <<cv_fonts, cv_saved>>
              [] args.command \in {"save", "to"} ->
                    /\ cv_saved' = Append(cv_saved, [at |-> at, fonts |-> cv_fonts.items])
                    /\ cv_pc' = next
                    /\ UNCHANGED cv_fonts
              [] OTHER ->
                    /\ cv_fonts' = [type |-> "tuple",
                                    items |-> [k \in 1..Len(cv_fonts.items) |->
                                                CvApply(args.command, cv_fonts.items[k])]]
                    /\ cv_pc' = next
                    /\ UNCHANGED cv_saved
    /\ UNCHANGED cv_args
    /\ UNCHANGED notCv

NextCv ==
    \/ CvStart
    \/ CvExecute

SpecCv == InitCv /\ [][NextCv]_vars

CvDone == cv_pc.state = "done"
CvFailed == cv_pc.state = "TypeError"

\* the commands as the claim reads them: an unnamed first record is a load, a save is
\* appended behind a last command that is neither to nor save
CvAsStated(given) ==
    LET named == IF given[1].command = "" THEN [given EXCEPT ![1].command = "load"] ELSE given
    IN  IF named[Len(named)].command \notin {"to", "save"}
        THEN Append(named, argrecord("save", FALSE))
        ELSE named

\* what every save receives when the commands are executed in order
RECURSIVE CvSaves(_, _, _, _)
CvSaves(commands, at, fonts, count) ==
    IF at > Len(commands) THEN <<>>
    ELSE LET command == commands[at].command
         IN  IF command = "" THEN CvSaves(commands, at + 1, fonts, count)
             ELSE IF command = "load"
             THEN CvSaves(commands, at + 1, fonts \o CvLoad(at, count), count)
             ELSE IF command \in {"save", "to"}
             THEN <<[at |-> at, fonts |-> fonts]>> \o CvSaves(commands, at + 1, fonts, count)
             ELSE CvSaves(commands, at + 1,
                          [k \in 1..Len(fonts) |-> CvApply(command, fonts[k])], count)

\* C25: convert.py executes the commands in the order given: an unnamed first record
\* becomes load, a save is appended when the last command is neither to nor save, every
\* other operation is applied to each font loaded so far, and every save receives the
\* fonts as transformed by the operations before it; the run gets to its end.
C25_CommandsInOrder ==
    /\ ~CvFailed
    /\ CvDone => cv_saved = CvSaves(CvAsStated(cv_args.given), 1, <<>>, cv_args.count)

\* load, an operation, and a second load: the second load raises TypeError and the
\* appended save is never reached
C25_LoadAfterOperationFails ==
    /\ CvFailed
    /\ cv_args.given = <<argrecord("load", TRUE), argrecord("mirror", TRUE),
                         argrecord("load", TRUE)>>
    /\ cv_saved = <<>>
    /\ cv_fonts.type = "tuple"

(***************************************************************************)
(* Mac NFNT writer (_create_nfnt) and the place of the width/offset table   *)
(***************************************************************************)

LOC_ENTRY_SIZE == 2
WO_ENTRY_SIZE == 2

\* _extract_nfnt, lines 209-213: where the width/offset table is read
WoTableAt(offset, owTLoc, nDescent, owt_loc_high) ==
    LET high == IF nDescent > 0 THEN nDescent ELSE owt_loc_high
    IN  offset + 16 + (owTLoc + high * 65536) * 2

\* _create_nfnt for a font that is subset and normalised: glyph_table holds count glyphs
\* (the coded range and the missing glyph), each width pixels wide, the bounding box is
\* height rows high and the ink reaches down to ink_bottom. The layout of the resource:
\* header fields, lengths of the strike and the location table, place of the table
_create_nfnt(font, ndescent_is_high) ==
    LET strike_width == font.count * font.width
        aligned == strike_width + (16 - (strike_width % 16))
        rowWords == aligned \div 16
        font_strike == font.height * rowWords * 2
        loc_table == (font.count + 1) * LOC_ENTRY_SIZE
        owt_loc == (font_strike + loc_table + 10) \div 2
        owt_loc_high == owt_loc \div 65536
    IN  [fontrec |-> [firstChar |-> font.first,
                      lastChar |-> font.first + font.count - 2,
                      nDescent |-> IF ndescent_is_high /\ owt_loc_high # 0
                                   THEN owt_loc_high ELSE font.ink_bottom,
                      fRectHeight |-> font.height,
                      owTLoc |-> owt_loc % 65536,
                      rowWords |-> rowWords],
         font_strike |-> font_strike,
         loc_table |-> loc_table,
         wo_table |-> (font.count + 1) * WO_ENTRY_SIZE,
         owt_loc_high |-> owt_loc_high]

MaxNfntInkBottom == 2

NfntFonts ==
    [first : {32}, count : {2, 3, 224}, width : {1, 16, 254}, height : {1, 2, 300},
     ink_bottom : (-MaxNfntInkBottom)..MaxNfntInkBottom]

InitNfntCreate ==
    /\ FntIdle /\ RawIdle /\ SprIdle /\ ShtIdle /\ LxIdle /\ WinIdle /\ FontIdle /\ BmIdle
    /\ CpiIdle /\ AmiIdle /\ DdIdle /\ CnIdle /\ CvIdle
    /\ \E font \in NfntFonts, ndescent_is_high \in BOOLEAN :
            mac_in = [font |-> font, ndescent_is_high |-> ndescent_is_high]
    /\ mac_out = Unset
    /\ mac_pc = "create"

CreateNfnt ==
    /\ mac_pc = "create"
    /\ mac_out' = Ok([written |-> _create_nfnt(mac_in.font, mac_in.ndescent_is_high),
                      wo_read_at |-> 0])
    /\ mac_pc' = "created"
    /\ UNCHANGED mac_in
    /\ UNCHANGED notMac

\* _extract_nfnt on the resource at offset 0; the caller hands over the high word that
\* _create_nfnt returned when it did not go into nDescent
LocateWoTable ==
    /\ mac_pc = "created"
    /\ LET written == mac_out.val.written
       IN  mac_out' = Ok([written |-> written,
                          wo_read_at |-> WoTableAt(0, written.fontrec.owTLoc,
                                                   written.fontrec.nDescent,
                                                   IF mac_in.ndescent_is_high THEN 0
                                                   ELSE written.owt_loc_high)])
    /\ mac_pc' = "located"
    /\ UNCHANGED mac_in
    /\ UNCHANGED notMac

NextNfntCreate ==
    \/ CreateNfnt
    \/ LocateWoTable

SpecNfntCreate == InitNfntCreate /\ [][NextNfntCreate]_vars

NfntWoWrittenAt(written) == NFNT_HEADER_SIZE + written.font_strike + written.loc_table

\* C26: _extract_nfnt reads the width/offset table of a resource made by _create_nfnt at
\* the byte position where it was written, 26 + strike length + location-table length,
\* also when the written nDescent field is positive.
C26_WoTableWhereWritten ==
    mac_pc = "located" => mac_out.val.wo_read_at = NfntWoWrittenAt(mac_out.val.written)

\* ink that ends one row above the baseline is written as nDescent = 1, which the reader
\* takes for the high word of the offset: it looks 131072 bytes behind the table
C26_PositiveDescentMisread ==
    /\ mac_pc = "located"
    /\ mac_in.font.ink_bottom = 1
    /\ mac_out.val.written.owt_loc_high = 0
    /\ mac_out.val.written.fontrec.nDescent = 1
    /\ mac_out.val.wo_read_at = NfntWoWrittenAt(mac_out.val.written) + 131072

\* with the ink on or below the baseline the table is found, also beyond 128 KiB
C26_FoundWhenNotAboveBaseline ==
    (mac_pc = "located" /\ mac_in.font.ink_bottom <= 0)
        => mac_out.val.wo_read_at = NfntWoWrittenAt(mac_out.val.written)

C26_HighWordInDescent ==
    /\ mac_pc = "located"
    /\ mac_in.ndescent_is_high
    /\ mac_out.val.written.owt_loc_high > 0
    /\ mac_in.font.ink_bottom < 0
    /\ mac_out.val.wo_read_at = NfntWoWrittenAt(mac_out.val.written)

(***************************************************************************)
(* Apple IIgs font file (formats/mac/iigs.py): _save_iigs and _load_iigs    *)
(***************************************************************************)

IIGS_HEADER_SIZE == 12
EXTENDED_HEADER_SIZE == 2
IIGS_V101 == 257
IIGS_V105 == 261

\* _save_iigs for a font that is subset and normalised (as for _create_nfnt) and a family
\* name of name_len bytes. The file is laid out as the p-string, the IIgs header, and
\* then 16-bit words: the extended header if there is one, the fields of the NFNT header
\* in their order, and behind them the strike and the tables, given by their lengths
_save_iigs(font, name_len) ==
    LET strike_width == font.count * font.width
        aligned == strike_width + (16 - (strike_width % 16))
        rowWords == aligned \div 16
        font_strike == font.height * rowWords * 2
        loc_table == (font.count + 1) * LOC_ENTRY_SIZE
        owt_loc == (font_strike + loc_table + 10) \div 2
        extended == owt_loc > 65535
        extra == IF extended THEN <<owt_loc \div 65536>> ELSE <<>>
        fontrec == <<0, font.first, font.first + font.count - 2, font.width, 0,
                     (font.ink_bottom + 65536) % 65536, font.width, font.height,
                     owt_loc % 65536, font.height + font.ink_bottom,
                     (65536 - font.ink_bottom) % 65536, 0, rowWords>>
    IN  [name_len |-> name_len,
         header |-> [offset |-> IIGS_HEADER_SIZE \div 2,
                     version |-> IF extended THEN IIGS_V105 ELSE IIGS_V101],
         words |-> extra \o fontrec,
         font_strike |-> font_strike,
         loc_table |-> loc_table,
         owt_loc |-> owt_loc]

\* where _save_iigs put the NFNT header and the width/offset table
IigsNfntWrittenAt(file) ==
    file.name_len + 1 + IIGS_HEADER_SIZE + 2 * (Len(file.words) - 13)

IigsWoWrittenAt(file) ==
    IigsNfntWrittenAt(file) + NFNT_HEADER_SIZE + file.font_strike + file.loc_table

\* the 16-bit word of the file at a byte position inside the header words, 0 behind them
IigsWordAt(file, at) ==
    LET k == (at - (file.name_len + 1 + IIGS_HEADER_SIZE)) \div 2 + 1
    IN  IF k \in 1..Len(file.words) THEN file.words[k] ELSE 0

\* _load_iigs up to the tables of _parse_iigs_nfnt: the place of the NFNT header, the
\* high word of owTLoc and the place of the width/offset table
_load_iigs(file) ==
    LET offset == file.name_len + 1
        \* extra = data[offset+_IIGS_HEADER.size : header.offset*2]
        extra_from == offset + IIGS_HEADER_SIZE
        extra_to == file.header.offset * 2
        extra_len == IF extra_to > extra_from THEN extra_to - extra_from ELSE 0
        nfnt_at == offset + file.header.offset * 2
        owTLocHigh == IF file.header.version >= IIGS_V105 /\ extra_len >= 2
                      THEN IigsWordAt(file, extra_from) ELSE 0
        owTLoc == IigsWordAt(file, nfnt_at + 16)
    IN  [nfnt_at |-> nfnt_at,
         owTLocHigh |-> owTLocHigh,
         firstChar |-> IigsWordAt(file, nfnt_at + 2),
         wo_at |-> nfnt_at + 16 + (owTLoc + owTLocHigh * 65536) * 2]

IigsNameLengths == {0, 4, 11, 20}

InitIigs ==
    /\ FntIdle /\ RawIdle /\ SprIdle /\ ShtIdle /\ LxIdle /\ WinIdle /\ FontIdle /\ BmIdle
    /\ CpiIdle /\ AmiIdle /\ DdIdle /\ CnIdle /\ CvIdle
    /\ \E font \in NfntFonts, name_len \in IigsNameLengths :
            mac_in = [font |-> font, name_len |-> name_len]
    /\ mac_out = Unset
    /\ mac_pc = "save_iigs"

SaveIigs ==
    /\ mac_pc = "save_iigs"
    /\ mac_out' = Ok([file |-> _save_iigs(mac_in.font, mac_in.name_len),
                      read |-> [nfnt_at |-> 0, owTLocHigh |-> 0, firstChar |-> 0,
                                wo_at |-> 0]])
    /\ mac_pc' = "load_iigs"
    /\ UNCHANGED mac_in
    /\ UNCHANGED notMac

LoadIigs ==
    /\ mac_pc = "load_iigs"
    /\ mac_out' = Ok([file |-> mac_out.val.file, read |-> _load_iigs(mac_out.val.file)])
    /\ mac_pc' = "loaded"
    /\ UNCHANGED mac_in
    /\ UNCHANGED notMac

NextIigs ==
    \/ SaveIigs
    \/ LoadIigs

SpecIigs == InitIigs /\ [][NextIigs]_vars

\* C27: _load_iigs finds the NFNT header and the width/offset table of a file written by
\* _save_iigs where they were written, for every family-name length; when owTLoc exceeds
\* 0xFFFF the file has version 0x0105 and the loader takes the high word of owTLoc from
\* the extended header.
C27_IigsRoundTripPositions ==
    mac_pc = "loaded" =>
        /\ mac_out.val.read.nfnt_at = IigsNfntWrittenAt(mac_out.val.file)
        /\ mac_out.val.read.wo_at = IigsWoWrittenAt(mac_out.val.file)
        /\ mac_out.val.file.owt_loc > 65535 =>
                /\ mac_out.val.file.header.version = IIGS_V105
                /\ mac_out.val.read.owTLocHigh = mac_out.val.file.owt_loc \div 65536

\* a font of more than 128 KiB: the file is version 0x0105, the loader takes the extended
\* header for the start of the NFNT header and the high word for 0
C27_ExtendedHeaderMissed ==
    /\ mac_pc = "loaded"
    /\ mac_out.val.file.owt_loc > 65535
    /\ mac_out.val.file.header.version = IIGS_V105
    /\ mac_out.val.read.nfnt_at = IigsNfntWrittenAt(mac_out.val.file) - EXTENDED_HEADER_SIZE
    /\ mac_out.val.read.owTLocHigh = 0
    /\ mac_out.val.read.firstChar # mac_in.font.first

\* without an extended header the positions agree for every name length
C27_PlainFileLocated ==
    (mac_pc = "loaded" /\ mac_out.val.file.owt_loc <= 65535) =>
        /\ mac_out.val.read.nfnt_at = IigsNfntWrittenAt(mac_out.val.file)
        /\ mac_out.val.read.wo_at = IigsWoWrittenAt(mac_out.val.file)
        /\ mac_out.val.read.firstChar = mac_in.font.first

(***************************************************************************)
(* FontProperties (font.py): which properties the default rule of a         *)
(* property reads, and the chain of calls an evaluation makes               *)
(***************************************************************************)

\* properties whose default rule reads other properties, and that a font can define
WritableProps == {"name", "family", "point_size", "dpi", "ascent", "descent", "line_height"}

\* computed on every access
ComputedProps ==
    {"pixel_size", "raster_size", "ink_bounds", "bounding_box", "padding", "spacing",
     "shift_down", "tracking", "offset", "average_advance", "max_advance", "cap_advance"}

\* plain fields: a stored value or the default of their type
PlainProps ==
    {"slant", "setwidth", "weight", "source_name", "pixel_aspect", "shift_up", "leading",
     "left_bearing", "right_bearing", "raster", "x_height", "cap_height", "default_char"}

AllProps == WritableProps \cup ComputedProps \cup PlainProps

\* FontProperties.dpi with the new rule: reads pixel_size and point_size always
dpi_reads_Always(defined) == <<"pixel_size", "point_size", "pixel_aspect">>

\* FontProperties.dpi: pixel_size and point_size are read only when point-size is defined
dpi_reads(defined) ==
    IF "point_size" \in defined THEN <<"pixel_size", "point_size", "pixel_aspect">>
    ELSE <<"pixel_aspect">>

\* the properties the body of a property reads, in order; has_glyphs: the font has
\* glyphs
Reads(prop, defined, has_glyphs) ==
    CASE prop = "name" -> <<"slant", "setwidth", "weight", "family", "point_size">>
      [] prop = "family" -> <<"source_name">>
      [] prop = "point_size" -> <<"pixel_size", "dpi">>
      [] prop = "pixel_size" -> IF has_glyphs THEN <<"ascent", "descent">> ELSE <<>>
      [] prop = "dpi" -> dpi_reads(defined)
      [] prop = "ascent" -> IF has_glyphs THEN <<"shift_up">> ELSE <<>>
      [] prop = "descent" -> IF has_glyphs THEN <<"shift_up">> ELSE <<>>
      [] prop = "raster_size" -> <<"raster">>
      [] prop = "ink_bounds" -> <<"left_bearing", "shift_up">>
      [] prop = "bounding_box" -> <<"ink_bounds">>
      [] prop = "padding" -> <<"ink_bounds", "raster">>
      [] prop = "spacing" -> IF has_glyphs THEN <<"line_height", "bounding_box">> ELSE <<>>
      [] prop = "line_height" -> <<"pixel_size", "leading">>
      [] prop = "shift_down" -> <<"shift_up">>
      [] prop = "tracking" -> <<"right_bearing">>
      [] prop = "offset" -> <<"left_bearing", "shift_up">>
      [] prop \in {"average_advance", "max_advance", "cap_advance"} ->
            <<"left_bearing", "right_bearing">>
      [] OTHER -> <<>>

\* reading a property: the stored value when it is defined, its body otherwise
Frame(prop, defined, has_glyphs) ==
    [prop |-> prop,
     reads |-> IF prop \in defined THEN <<>> ELSE Reads(prop, defined, has_glyphs)]

MaxPropDepth == 8

InitFontProps ==
    /\ FntIdle /\ RawIdle /\ SprIdle /\ ShtIdle /\ LxIdle /\ WinIdle /\ BmIdle /\ MacIdle
    /\ CpiIdle /\ AmiIdle /\ DdIdle /\ CnIdle /\ CvIdle
    /\ \E prop \in AllProps, defined \in SUBSET WritableProps, has_glyphs \in BOOLEAN :
            fo_font = [has_glyphs |-> has_glyphs, defined |-> defined, prop |-> prop,
                       stack |-> <<Frame(prop, defined, has_glyphs)>>]
    /\ fo_last = "get"

\* the body on top of the stack reads its next property
PropRead ==
    /\ fo_last = "get"
    /\ fo_font.stack # <<>>
    /\ Len(fo_font.stack) < MaxPropDepth
    /\ LET top == fo_font.stack[Len(fo_font.stack)]
       IN  /\ top.reads # <<>>
           /\ fo_font' = [fo_font EXCEPT
                            !.stack = Append([@ EXCEPT ![Len(@)].reads = Tail(top.reads)],
                                             Frame(Head(top.reads), fo_font.defined,
                                                   fo_font.has_glyphs))]
    /\ UNCHANGED fo_last
    /\ UNCHANGED notFont

\* the body on top of the stack returns; the evaluation is over when it was the last
PropReturn ==
    /\ fo_last = "get"
    /\ fo_font.stack # <<>>
    /\ fo_font.stack[Len(fo_font.stack)].reads = <<>>
    /\ fo_font' = [fo_font EXCEPT !.stack = SubSeq(@, 1, Len(@) - 1)]
    /\ fo_last' = IF Len(fo_font.stack) = 1 THEN "got" ELSE "get"
    /\ UNCHANGED notFont

NextFontProps ==
    \/ PropRead
    \/ PropReturn

SpecFontProps == InitFontProps /\ [][NextFontProps]_vars

SpecFontPropsFair == SpecFontProps /\ WF_vars(NextFontProps)

\* no property is read while its own body is being evaluated, and the chain of calls
\* stays short
NoPropertyReadsItself ==
    /\ \A i \in 1..Len(fo_font.stack) : \A j \in 1..Len(fo_font.stack) :
            i # j => fo_font.stack[i].prop # fo_font.stack[j].prop
    /\ Len(fo_font.stack) < MaxPropDepth

\* with point-size defined, the evaluation of dpi has gone on to pixel_size, ascent and
\* shift_up
C28_DpiReadsPixelSize ==
    /\ fo_last = "get"
    /\ fo_font.prop = "dpi"
    /\ fo_font.defined = {"point_size"}
    /\ Len(fo_font.stack) = 4
    /\ fo_font.stack[2].prop = "pixel_size"
    /\ fo_font.stack[3].prop = "ascent"
    /\ fo_font.stack[4].prop = "shift_up"

\* C28: evaluating a derived property terminates for every font and every combination
\* of defined properties: the default rules do not depend on themselves (no property is
\* read while its own body is being evaluated), and every evaluation comes to its end.
C28_EvaluationTerminates == []NoPropertyReadsItself /\ <>(fo_last = "got")

(***************************************************************************)
(* _lx_unpack2 turn by turn (formats/os2/lx.py)                            *)
(***************************************************************************)

\* a block copy that does not step over its control byte
LxBlockCopyNext_NoControl(ofIn, ulLen) == ofIn + ulLen

\* block copy of case 0: `ofIn += ulLen + 1`
LxBlockCopyNext(ofIn, ulLen) == ofIn + ulLen + 1

\* position in _lx_unpack2: state "while" at the top of the loop, "return" after a
\* break, or the exception raised; ofIn, the value of ofIn before the last turn, and
\* the number of turns of the loop begun
LxAt(state, ofIn, before, turns) ==
    [state |-> state, ofIn |-> ofIn, before |-> before, turns |-> turns]

\* one turn of the while loop of _lx_unpack2: the new ofIn, the output, and whether
\* the loop goes on
LxTurn(pBuf, ofIn, abOut) ==
    LET cbPage == Len(pBuf)
        w16 == pBuf[ofIn + 1] + 256 * pBuf[ofIn + 2]
        w32 == w16 + 65536 * pBuf[ofIn + 3]
        case_flag == w16 % 4
        \* `if ofIn >= cbPage: break` at the end of the turn
        Turn(nextIn, out) ==
            [ofIn |-> nextIn, out |-> out,
             state |-> IF ~IsOk(out) THEN out.err
                       ELSE IF nextIn >= cbPage THEN "return" ELSE "while"]
    IN  IF ofIn + 2 > cbPage THEN Turn(ofIn, Err("ValueError"))
        ELSE IF case_flag = 0 /\ w16 % 256 = 0
        THEN IF w16 \div 256 = 0 THEN [ofIn |-> ofIn, out |-> Ok(abOut), state |-> "return"]
             ELSE IF ofIn + 3 > cbPage THEN Turn(ofIn, Err("IndexError"))
             ELSE Turn(ofIn + 3, Ok(abOut \o [k \in 1..(w16 \div 256) |-> pBuf[ofIn + 3]]))
        ELSE IF case_flag = 0
        THEN LET ulLen == (w16 % 256) \div 4
             IN  Turn(LxBlockCopyNext(ofIn, ulLen),
                      Ok(abOut \o LxLiteral(pBuf, ofIn + 1, ulLen)))
        ELSE IF case_flag = 1
        THEN LET ulLen == (w16 \div 4) % 4
             IN  Turn(ofIn + ulLen + 2,
                      _copy_byte_seq(abOut \o LxLiteral(pBuf, ofIn + 2, ulLen),
                                     (w16 \div 128) % 512, ((w16 \div 16) % 8) + 3))
        ELSE IF case_flag = 2
        THEN Turn(ofIn + 2,
                  _copy_byte_seq(abOut, (w16 \div 16) % 4096, ((w16 \div 4) % 4) + 3))
        ELSE IF ofIn + 4 > cbPage THEN Turn(ofIn, Err("ValueError"))
        ELSE LET ulLen == (w32 \div 4) % 16
             IN  Turn(ofIn + ulLen + 3,
                      _copy_byte_seq(abOut \o LxLiteral(pBuf, ofIn + 3, ulLen),
                                     (w32 \div 4096) % 4096, (w32 \div 64) % 64))

\* a page of at most 4096 bytes, at the top of the loop with ofIn = 0
InitLxLoop ==
    /\ FntIdle /\ RawIdle /\ SprIdle /\ ShtIdle /\ WinIdle /\ FontIdle /\ BmIdle /\ MacIdle
    /\ CpiIdle /\ AmiIdle /\ DdIdle /\ CnIdle /\ CvIdle
    /\ lx_recs = <<>>
    /\ lx_page \in UNION {[1..n -> LxBytes] : n \in 0..MaxLxPage}
    /\ lx_out = Ok(<<>>)
    /\ lx_pc = LxAt("while", 0, 0, 0)

\* one turn of the loop that goes on to the next
LxLoop ==
    /\ lx_pc.state = "while"
    /\ LET turn == LxTurn(lx_page, lx_pc.ofIn, lx_out.val)
       IN  /\ turn.state = "while"
           /\ lx_out' = turn.out
           /\ lx_pc' = LxAt("while", turn.ofIn, lx_pc.ofIn, lx_pc.turns + 1)
    /\ UNCHANGED <<lx_recs, lx_page>>
    /\ UNCHANGED notLx

\* the turn that leaves the loop by break, and the return
LxBreak ==
    /\ lx_pc.state = "while"
    /\ LET turn == LxTurn(lx_page, lx_pc.ofIn, lx_out.val)
       IN  /\ turn.state = "return"
           /\ lx_out' = turn.out
           /\ lx_pc' = LxAt("return", turn.ofIn, lx_pc.ofIn, lx_pc.turns + 1)
    /\ UNCHANGED <<lx_recs, lx_page>>
    /\ UNCHANGED notLx

\* the turn that raises
LxRaise ==
    /\ lx_pc.state = "while"
    /\ LET turn == LxTurn(lx_page, lx_pc.ofIn, lx_out.val)
       IN  /\ turn.state \notin {"while", "return"}
           /\ lx_out' = turn.out
           /\ lx_pc' = LxAt(turn.state, turn.ofIn, lx_pc.ofIn, lx_pc.turns + 1)
    /\ UNCHANGED <<lx_recs, lx_page>>
    /\ UNCHANGED notLx

NextLxLoop ==
    \/ LxLoop
    \/ LxBreak
    \/ LxRaise

SpecLxLoop == InitLxLoop /\ [][NextLxLoop]_vars

SpecLxLoopFair == SpecLxLoop /\ WF_vars(NextLxLoop)

\* a turn that goes on to the next has moved ofIn forward by at least 2
LxAdvancesByTwo ==
    (lx_pc.state = "while" /\ lx_pc.turns > 0) => lx_pc.ofIn >= lx_pc.before + 2

\* the loop is left with the result _lx_unpack2 gives for the page
LxLoopIsUnpack2 ==
    lx_pc.state # "while" => lx_out = _lx_unpack2(lx_page)

\* the statement as it stands: at most half the page length turns
C29_TurnsAtMostHalfPage ==
    /\ LxAdvancesByTwo
    /\ 2 * lx_pc.turns <= Len(lx_page)

\* C29: for every page of at most 4096 bytes _lx_unpack2 terminates: every turn of the
\* loop that goes on to the next moves ofIn forward by at least 2, at most half the page
\* length turns go on to the next, and the loop is left in the turn after at the latest,
\* by a break or by an exception.
C29_Unpack2Terminates ==
    /\ LxAdvancesByTwo
    /\ lx_pc.state = "while" => 2 * lx_pc.turns <= Len(lx_page)
    /\ lx_pc.turns <= Len(lx_page) \div 2 + 1

\* under weak fairness the loop is left
LxLoopEnds == <>(lx_pc.state # "while")

\* a page of three bytes: the block copy of one byte goes on to a second turn, which
\* finds one byte where the control word should be
C29_SecondTurnOnThreeBytes ==
    /\ Len(lx_page) = 3
    /\ lx_pc.turns = 2
    /\ lx_pc.state = "ValueError"

(***************************************************************************)
(* pefon on resource sections whose directory entries point back            *)
(* (windows.py)                                                             *)
(***************************************************************************)

MaxPeTurns == 5

\* where the tables of the section lie: the root table at 0, table A below it, table B
\* below A, then one data entry and its payload
PeLoopAt(part) ==
    CASE part = "root" -> 0
      [] part = "A" -> 32
      [] part = "B" -> 64
      [] part = "data" -> 96
      [] part = "payload" -> 104

\* what an entry of A or B points to
PeLoopTargets == {"data", "self", "parent", "child"}

\* the entries of A (one or two) and of B (one); B has no table below it
PeLoopInputs ==
    [a : UNION {[1..n -> PeLoopTargets] : n \in 1..2},
     b : [1..1 -> PeLoopTargets \ {"child"}],
     secrva : {0, 4096}]

\* the entry of a table at offset `at` with parent table at `up` and child table at `down`
PeLoopEntry(target, j, at, up, down) ==
    [id |-> j, isdir |-> target # "data",
     to |-> CASE target = "data" -> PeLoopAt("data")
              [] target = "self" -> at
              [] target = "parent" -> up
              [] OTHER -> down]

PeLoopRsrc(in) ==
    LJust(PeDirBytes(<<[id |-> 8, to |-> PeLoopAt("A"), isdir |-> TRUE]>>), 32)
        \o LJust(PeDirBytes([j \in 1..Len(in.a) |->
                                PeLoopEntry(in.a[j], j, PeLoopAt("A"), PeLoopAt("root"), PeLoopAt("B"))]),
                 32)
        \o LJust(PeDirBytes([j \in 1..Len(in.b) |->
                                PeLoopEntry(in.b[j], j, PeLoopAt("B"), PeLoopAt("A"), PeLoopAt("B"))]),
                 32)
        \o DWordLE(in.secrva + PeLoopAt("payload")) \o DWordLE(4)
        \o <<1, 2, 3, 4>>

\* the file: PE header with one section and no optional header, the entry of .rsrc in
\* the section table, and the section
PeLoopFile(in) ==
    [k \in 1..6 |-> 0] \o WordLE(1) \o [k \in 1..16 |-> 0]
        \o PeSectionBytes(RSRC_NAME, in.secrva, Len(PeLoopRsrc(in)), 64)
        \o PeLoopRsrc(in)

\* position in pefon, and the tables taken from the list so far
PeAt(state, taken) == [state |-> state, taken |-> taken]

InitPeLoop ==
    /\ FntIdle /\ RawIdle /\ SprIdle /\ ShtIdle /\ LxIdle /\ FontIdle /\ BmIdle /\ MacIdle
    /\ CpiIdle /\ AmiIdle /\ DdIdle /\ CnIdle /\ CvIdle
    /\ win_in \in PeLoopInputs
    /\ win_fon = PeLoopFile(win_in)
    /\ win_work = <<>>
    /\ win_out = Unset
    /\ win_pc = PeAt("pefon", <<>>)

\* find the .rsrc section and read the root table
PeLoopStart ==
    /\ win_pc.state = "pefon"
    /\ LET r == PefonStart(win_fon, 0)
       IN  IF IsOk(r)
           THEN win_work' = r.val /\ win_pc' = PeAt("tables", <<>>) /\ UNCHANGED win_out
           ELSE win_out' = r /\ win_pc' = PeAt("done", <<>>) /\ UNCHANGED win_work
    /\ UNCHANGED <<win_in, win_fon>>
    /\ UNCHANGED notWin

\* one turn of `while len(dirtables) > 0`: `table = dirtables[0]; del dirtables[0];
\* dodirtable(rsrc, table, -1)`
PeLoopTable ==
    /\ win_pc.state = "tables"
    /\ Len(win_work.dirtables) > 0
    /\ Len(win_pc.taken) < MaxPeTurns
    /\ LET table == Head(win_work.dirtables)
           r == dodirtable(win_work.rsrc, table, -1,
                           [dirtables |-> Tail(win_work.dirtables),
                            dataentries |-> win_work.dataentries])
       IN  IF IsOk(r)
           THEN /\ win_work' = [win_work EXCEPT !.dirtables = r.val.dirtables,
                                                !.dataentries = r.val.dataentries]
                /\ win_pc' = PeAt("tables", Append(win_pc.taken, table))
                /\ UNCHANGED win_out
           ELSE /\ win_out' = r
                /\ win_pc' = PeAt("done", Append(win_pc.taken, table))
                /\ UNCHANGED win_work
    /\ UNCHANGED <<win_in, win_fon>>
    /\ UNCHANGED notWin

\* the list is empty: decode the data entries
PeLoopFonts ==
    /\ win_pc.state = "tables"
    /\ Len(win_work.dirtables) = 0
    /\ win_out' = PefonFonts(win_work.rsrc, win_work.secrva, win_work.dataentries, 1, <<>>)
    /\ win_pc' = PeAt("done", win_pc.taken)
    /\ UNCHANGED <<win_in, win_fon, win_work>>
    /\ UNCHANGED notWin

NextPeLoop ==
    \/ PeLoopStart
    \/ PeLoopTable
    \/ PeLoopFonts

SpecPeLoop == InitPeLoop /\ [][NextPeLoop]_vars

\* the tables an entry of the section can lead to from the root entry of type 8
PeLoopReached == {PeLoopAt("A")} \cup (IF \E j \in 1..Len(win_in.a) : win_in.a[j] = "child"
                                  THEN {PeLoopAt("B")} ELSE {})

\* no entry reached from the root points back
PeLoopIsTree ==
    /\ \A j \in 1..Len(win_in.a) : win_in.a[j] \in {"data", "child"}
    /\ PeLoopAt("B") \in PeLoopReached => win_in.b[1] = "data"

\* how often a table has been taken from the list
PeLoopTimes(table) == Cardinality({k \in 1..Len(win_pc.taken) : win_pc.taken[k] = table})

\* the entries of the section that lead to a table
PeLoopDirEntries ==
    1 + Cardinality({j \in 1..Len(win_in.a) : win_in.a[j] # "data"})
      + (IF PeLoopAt("B") \in PeLoopReached /\ win_in.b[1] # "data" THEN 1 ELSE 0)

\* C30: the worklist loop of pefon terminates for every content of the section: a table
\* is taken from the list at most once per entry that leads to a table, also when an
\* entry points back to its own table or to an ancestor.
C30_TablesTakenBounded ==
    \A table \in {PeLoopAt("root"), PeLoopAt("A"), PeLoopAt("B")} : PeLoopTimes(table) <= PeLoopDirEntries

\* table A holds one entry, pointing to A: after its third turn the lists are what they
\* were before the first
C30_SelfPointingTableTakenAgain ==
    /\ win_in.a = <<"self">>
    /\ win_pc = PeAt("tables", <<PeLoopAt("A"), PeLoopAt("A"), PeLoopAt("A")>>)
    /\ win_work.dirtables = <<PeLoopAt("A")>>
    /\ win_work.dataentries = <<>>

\* a section without entries that point back is worked off: a table is taken once per
\* entry leading to it, and the loop ends with the list empty
C30_TreesWorkedOff ==
    PeLoopIsTree =>
        /\ Len(win_pc.taken) <= 3
        /\ (win_pc.state = "tables" /\ Len(win_work.dirtables) > 0)
              => Len(win_pc.taken) < 3

\* when a table reached from the root holds an entry pointing to itself or to an
\* ancestor, the list is not empty after any turn and the loop is never left
C30_BackPointerKeepsListFilled ==
    ~PeLoopIsTree =>
        /\ win_pc.state # "done"
        /\ (win_pc.state = "tables" /\ win_pc.taken # <<>>) => win_work.dirtables # <<>>

====
